---- MODULE Spec2Model ----
(***************************************************************************)
(* Model of the water-level preprocessing pipeline of apps/ml-service:     *)
(* PreprocessingService (get_station_data, the feature transforms,         *)
(* create_targets, clean_data, preprocess_data,                            *)
(* prepare_latest_data_for_prediction), DataMergeService and the forecast  *)
(* loop of POST /generate-forecasts.                                       *)
(*                                                                         *)
(* A call is served in steps, one per round trip to the database or the    *)
(* model registry; pc is the position of the call and local holds what it  *)
(* has read so far.  Between two steps other clients may update the        *)
(* preprocessing_configs table and the model registry.                     *)
(*                                                                         *)
(* A data frame is a record [columns, rows, error]: the ordered column     *)
(* names, the rows in frame order (each a function from column name to     *)
(* cell) and the exception raised while building it ("" when none).        *)
(* A cell is a sequence of integers: <<>> is NaN/None, <<x>> is the number *)
(* x.  Water levels are multiples of Unit, so that every mean, median and  *)
(* variance the pipeline forms over the bounded frames is an integer.      *)
(* A cell of a standard-deviation column holds radicands: <<v>> is         *)
(* sqrt(v), <<a, b>> is (sqrt(a) + sqrt(b)) / 2 (a median of two).         *)
(* A cell of a sin/cos column holds <<k, cycle>>, the argument of          *)
(* sin(2*pi*k/cycle) or cos(2*pi*k/cycle).                                 *)
(* measured_at is in minutes since Monday 2025-12-01T00:00Z.               *)
(***************************************************************************)
EXTENDS Integers, Sequences, FiniteSets, TLC

(***************************************************************************)
(* Cells and sequences                                                     *)
(***************************************************************************)
NaN == <<>>

Num(x) == <<x>>

IsNull(v) == v = NaN

NotNull(v) == v # NaN

Val(v) == v[1]

RECURSIVE SeqSum(_)
SeqSum(s) == IF s = <<>> THEN 0 ELSE Head(s) + SeqSum(Tail(s))

RECURSIVE FoldSeq(_, _, _)
FoldSeq(Op(_, _), acc, s) ==
    IF s = <<>> THEN acc ELSE FoldSeq(Op, Op(acc, Head(s)), Tail(s))

Indices(s) == [i \in 1..Len(s) |-> i]

InSeq(x, s) == \E i \in 1..Len(s) : s[i] = x

\* the non-null cells of a sequence of cells, as numbers
Valid(cells) ==
    LET keep == SelectSeq(cells, NotNull)
    IN  [i \in 1..Len(keep) |-> Val(keep[i])]

\* s[lo..hi] clipped to the sequence
Window(s, lo, hi) ==
    SubSeq(s, IF lo < 1 THEN 1 ELSE lo, IF hi > Len(s) THEN Len(s) ELSE hi)

\* str.__contains__ / the `in` operator on two strings
Contains(str, sub) ==
    \E i \in 1..(Len(str) - Len(sub) + 1) : SubSeq(str, i, i + Len(sub) - 1) = sub

\* str.startswith
StartsWith(str, prefix) ==
    Len(str) >= Len(prefix) /\ SubSeq(str, 1, Len(prefix)) = prefix

(***************************************************************************)
(* Data frames                                                             *)
(***************************************************************************)
Frame(columns, rows) == [columns |-> columns, rows |-> rows, error |-> ""]

Raise(df, exc) == [df EXCEPT !.error = exc]

HasColumn(df, col) == InSeq(col, df.columns)

NRows(df) == Len(df.rows)

Column(df, col) == [i \in 1..NRows(df) |-> df.rows[i][col]]

\* df[col] = vals: overwrite the column, or append it as the last column
SetColumn(df, col, vals) ==
    [df EXCEPT
        !.columns = IF HasColumn(df, col) THEN df.columns ELSE Append(df.columns, col),
        !.rows = [i \in 1..NRows(df) |->
                    [c \in (DOMAIN df.rows[i]) \cup {col} |->
                        IF c = col THEN vals[i] ELSE df.rows[i][c]]]]

\* if col not in df.columns: df[col] = np.nan; df.loc[mask, col] = vals,
\* where idx lists the positions of the mask in frame order
AssignAt(df, col, idx, vals) ==
    LET old == IF HasColumn(df, col) THEN Column(df, col)
               ELSE [i \in 1..NRows(df) |-> NaN]
        new == [i \in 1..NRows(df) |->
                  IF InSeq(i, idx)
                  THEN vals[CHOOSE j \in 1..Len(idx) : idx[j] = i]
                  ELSE old[i]]
    IN  SetColumn(df, col, new)

\* df[mask]: the rows at the positions idx, in that order
TakeRows(df, idx) == [df EXCEPT !.rows = [j \in 1..Len(idx) |-> df.rows[idx[j]]]]

\* df[cols]: the named columns, in that order
TakeColumns(df, cols) ==
    [df EXCEPT !.columns = cols,
               !.rows = [i \in 1..NRows(df) |->
                           [c \in {cols[k] : k \in 1..Len(cols)} |-> df.rows[i][c]]]]

\* dict.get(key, default)
Get(config, key, default) == IF key \in DOMAIN config THEN config[key] ELSE default

(***************************************************************************)
(* Series primitives of pandas                                             *)
(***************************************************************************)
\* cells of the water_level column hold multiples of Unit
Unit == 8 * 3 * 5

\* a / b for the quotients the model can represent: the exact ones
ExactDiv(a, b) == CASE a % b = 0 -> a \div b

\* Series.shift(k): row i takes the cell of row i - k (k may be negative)
Shift(cells, k) ==
    [i \in 1..Len(cells) |->
        IF i - k >= 1 /\ i - k <= Len(cells) THEN cells[i - k] ELSE NaN]

\* Series.diff(k): cell i minus cell i - k
Diff(cells, k) ==
    [i \in 1..Len(cells) |->
        IF i - k >= 1 /\ i - k <= Len(cells) /\ NotNull(cells[i]) /\ NotNull(cells[i - k])
        THEN Num(Val(cells[i]) - Val(cells[i - k]))
        ELSE NaN]

Mean(xs) == ExactDiv(SeqSum(xs), Len(xs))

\* the sample variance (ddof = 1) of at least two numbers
Variance(xs) ==
    LET n == Len(xs)
        sq == [i \in 1..n |-> xs[i] * xs[i]]
    IN  ExactDiv(n * SeqSum(sq) - SeqSum(xs) * SeqSum(xs), n * (n - 1))

\* Series.mean(): NaN when no cell is valid
SeriesMean(cells) ==
    LET v == Valid(cells) IN IF Len(v) >= 1 THEN Num(Mean(v)) ELSE NaN

\* Series.std(): NaN with fewer than two valid cells; the cell holds the radicand
SeriesStd(cells) ==
    LET v == Valid(cells) IN IF Len(v) >= 2 THEN Num(Variance(v)) ELSE NaN

\* Series.rolling(window, min_periods).mean()
RollingMean(cells, window, min_periods) ==
    [i \in 1..Len(cells) |->
        LET v == Valid(Window(cells, i - window + 1, i))
        IN  IF Len(v) >= min_periods /\ Len(v) >= 1 THEN Num(Mean(v)) ELSE NaN]

\* a rolling deviation that yields a value from a single observation
RollingStdOfOne(cells, window, min_periods) ==
    [i \in 1..Len(cells) |->
        LET v == Valid(Window(cells, i - window + 1, i))
        IN  IF Len(v) >= 2 THEN Num(Variance(v))
            ELSE IF Len(v) >= min_periods /\ Len(v) >= 1 THEN Num(0)
            ELSE NaN]

\* Series.rolling(window, min_periods).std(): the cell holds the radicand
RollingStd(cells, window, min_periods) ==
    [i \in 1..Len(cells) |->
        LET v == Valid(Window(cells, i - window + 1, i))
        IN  IF Len(v) >= min_periods /\ Len(v) >= 2 THEN Num(Variance(v)) ELSE NaN]

\* Series.rolling(window, min_periods).sum()
RollingSum(cells, window, min_periods) ==
    [i \in 1..Len(cells) |->
        LET v == Valid(Window(cells, i - window + 1, i))
        IN  IF Len(v) >= min_periods /\ Len(v) >= 1 THEN Num(SeqSum(v)) ELSE NaN]

\* Series.rolling(window, min_periods) raises ValueError on these arguments
RollingRaises(window, min_periods) == window < 0 \/ min_periods > window

\* Series.unique(): the distinct cells in order of first appearance
RECURSIVE Unique(_)
Unique(cells) ==
    IF cells = <<>> THEN <<>>
    ELSE LET front == Unique(SubSeq(cells, 1, Len(cells) - 1))
             last == cells[Len(cells)]
         IN  IF InSeq(last, front) THEN front ELSE Append(front, last)

\* Series.nunique(): NaN is not counted
NUnique(cells) == Len(SelectSeq(Unique(cells), NotNull))

\* the frame order of rows sorted on measured_at, ties in their given order
\* (DataFrame.sort_values('measured_at'): numpy sorts the short arrays of this
\* model by insertion, which is stable)
RECURSIVE SortedIdx(_, _)
SortedIdx(times, n) ==
    IF n = 0 THEN <<>>
    ELSE LET front == SortedIdx(times, n - 1)
             k == Cardinality({j \in 1..Len(front) : times[front[j]] <= times[n]})
         IN  SubSeq(front, 1, k) \o <<n>> \o SubSeq(front, k + 1, Len(front))

SortByMeasuredAt(df) ==
    LET times == [i \in 1..NRows(df) |-> Val(df.rows[i]["measured_at"])]
    IN  TakeRows(df, SortedIdx(times, NRows(df)))

(***************************************************************************)
(* Interval estimator                                                      *)
(***************************************************************************)
\* measured_at.diff().dt.total_seconds() / 60 without its leading NaN
TimeDiffs(times) == [i \in 1..(Len(times) - 1) |-> times[i + 1] - times[i]]

\* the largest delta in place of the most frequent one
LargestInterval(times) ==
    LET d == TimeDiffs(times)
        vals == {d[i] : i \in 1..Len(d)}
    IN  IF vals = {} THEN 30
        ELSE CHOOSE v \in vals : \A w \in vals : v >= w

\* time_diffs.mode().values[0] if len(time_diffs.mode()) > 0 else 30:
\* the smallest of the most frequent deltas
ModeInterval(times) ==
    LET Occurrences(x, s) == Cardinality({i \in 1..Len(s) : s[i] = x})
        d == TimeDiffs(times)
        vals == {d[i] : i \in 1..Len(d)}
        modes == {v \in vals : \A w \in vals : Occurrences(v, d) >= Occurrences(w, d)}
    IN  IF modes = {} THEN 30
        ELSE CHOOSE v \in modes : \A w \in modes : v <= w

\* int(hours * periods_per_hour) with periods_per_hour = 60 / mode_interval.
\* For the intervals of this model (15, 30, 45) the float product truncates
\* to the integer quotient.
ShiftPeriods(hours, mode_interval) == (hours * 60) \div mode_interval

\* 60 / 0.0 is inf, and int(hours * inf) raises OverflowError
ShiftRaises(mode_interval, hours_list) == mode_interval = 0 /\ hours_list # <<>>

Times(df) == [i \in 1..NRows(df) |-> Val(df.rows[i]["measured_at"])]

\* positions of the rows of one station, in frame order
StationIdx(df, station) ==
    SelectSeq(Indices(df.rows), LAMBDA i : df.rows[i]["station_id"] = station)

\* 'station_id' in df.columns and df['station_id'].nunique() > 1
MultiStation(df) ==
    HasColumn(df, "station_id") /\ NUnique(Column(df, "station_id")) > 1

Stations(df) == Unique(Column(df, "station_id"))

(***************************************************************************)
(* Feature transforms                                                      *)
(***************************************************************************)
LagColumn(lag) == "water_level_lag_" \o ToString(lag) \o "h"

\* the lags of one station with the interval detected over the whole frame
LagStationFrameInterval(df, lag_periods, station) ==
    LET idx == StationIdx(df, station)
        station_df == SortByMeasuredAt(TakeRows(df, idx))
        mode_interval == ModeInterval(Times(SortByMeasuredAt(df)))
    IN  IF df.error # "" THEN df
        ELSE IF ~HasColumn(df, "measured_at") THEN Raise(df, "KeyError")
        ELSE IF NRows(station_df) <= 1 THEN df
        ELSE IF ShiftRaises(mode_interval, lag_periods) THEN Raise(df, "OverflowError")
        ELSE IF ~HasColumn(df, "water_level") /\ lag_periods # <<>>
             THEN Raise(df, "KeyError")
        ELSE FoldSeq(LAMBDA acc, lag :
                        AssignAt(acc, LagColumn(lag), idx,
                                 Shift(Column(station_df, "water_level"),
                                       ShiftPeriods(lag, mode_interval))),
                     df, lag_periods)

LagStation(df, lag_periods, station) ==
    LET idx == StationIdx(df, station)
        station_df == SortByMeasuredAt(TakeRows(df, idx))
        mode_interval == ModeInterval(Times(station_df))
    IN  IF df.error # "" THEN df
        ELSE IF ~HasColumn(df, "measured_at") THEN Raise(df, "KeyError")
        ELSE IF NRows(station_df) <= 1 THEN df
        ELSE IF ShiftRaises(mode_interval, lag_periods) THEN Raise(df, "OverflowError")
        ELSE IF ~HasColumn(df, "water_level") /\ lag_periods # <<>>
             THEN Raise(df, "KeyError")
        ELSE FoldSeq(LAMBDA acc, lag :
                        AssignAt(acc, LagColumn(lag), idx,
                                 Shift(Column(station_df, "water_level"),
                                       ShiftPeriods(lag, mode_interval))),
                     df, lag_periods)

LagSingle(df, lag_periods) ==
    LET mode_interval == ModeInterval(Times(SortByMeasuredAt(df)))
    IN  IF NRows(df) <= 1 THEN df
        ELSE IF ~HasColumn(df, "measured_at") THEN Raise(df, "KeyError")
        ELSE IF ShiftRaises(mode_interval, lag_periods) THEN Raise(df, "OverflowError")
        ELSE IF ~HasColumn(df, "water_level") /\ lag_periods # <<>>
             THEN Raise(df, "KeyError")
        ELSE FoldSeq(LAMBDA acc, lag :
                        SetColumn(acc, LagColumn(lag),
                                  Shift(Column(acc, "water_level"),
                                        ShiftPeriods(lag, mode_interval))),
                     df, lag_periods)

ApplyLagFeatures(df, config) ==
    LET lag_periods == Get(config, "lag_periods", <<1, 2, 3, 6, 12>>)
    IN  IF MultiStation(df)
        THEN FoldSeq(LAMBDA acc, station : LagStation(acc, lag_periods, station),
                     df, Stations(df))
        ELSE LagSingle(df, lag_periods)

RollingMeanColumn(window) == "water_level_rolling_mean_" \o ToString(window) \o "h"

RollingStdColumn(window) == "water_level_rolling_std_" \o ToString(window) \o "h"

\* the windows whose rolling(...) call raises: the call is made only for a
\* requested statistic
RollingWindowRaises(windows, statistics, min_periods, mode_interval) ==
    /\ InSeq("mean", statistics) \/ InSeq("std", statistics)
    /\ \E k \in 1..Len(windows) :
          RollingRaises(ShiftPeriods(windows[k], mode_interval), min_periods)

RollingStation(df, windows, statistics, min_periods, station) ==
    LET idx == StationIdx(df, station)
        station_df == SortByMeasuredAt(TakeRows(df, idx))
        mode_interval == ModeInterval(Times(station_df))
        level == Column(station_df, "water_level")
        WithMean(acc, window) ==
            IF InSeq("mean", statistics)
            THEN AssignAt(acc, RollingMeanColumn(window), idx,
                          RollingMean(level, ShiftPeriods(window, mode_interval), min_periods))
            ELSE acc
        WithStd(acc, window) ==
            IF InSeq("std", statistics)
            THEN AssignAt(acc, RollingStdColumn(window), idx,
                          RollingStd(level, ShiftPeriods(window, mode_interval), min_periods))
            ELSE acc
    IN  IF df.error # "" THEN df
        ELSE IF ~HasColumn(df, "measured_at") THEN Raise(df, "KeyError")
        ELSE IF NRows(station_df) <= 1 THEN df
        ELSE IF ShiftRaises(mode_interval, windows) THEN Raise(df, "OverflowError")
        ELSE IF ~HasColumn(df, "water_level") /\ windows # <<>>
                  /\ (InSeq("mean", statistics) \/ InSeq("std", statistics))
             THEN Raise(df, "KeyError")
        ELSE IF RollingWindowRaises(windows, statistics, min_periods, mode_interval)
             THEN Raise(df, "ValueError")
        ELSE FoldSeq(LAMBDA acc, window : WithStd(WithMean(acc, window), window),
                     df, windows)

RollingSingle(df, windows, statistics, min_periods) ==
    LET mode_interval == ModeInterval(Times(SortByMeasuredAt(df)))
        WithMean(acc, window) ==
            IF InSeq("mean", statistics)
            THEN SetColumn(acc, RollingMeanColumn(window),
                           RollingMean(Column(acc, "water_level"),
                                       ShiftPeriods(window, mode_interval), min_periods))
            ELSE acc
        WithStd(acc, window) ==
            IF InSeq("std", statistics)
            THEN SetColumn(acc, RollingStdColumn(window),
                           RollingStd(Column(acc, "water_level"),
                                      ShiftPeriods(window, mode_interval), min_periods))
            ELSE acc
    IN  IF NRows(df) <= 1 THEN df
        ELSE IF ~HasColumn(df, "measured_at") THEN Raise(df, "KeyError")
        ELSE IF ShiftRaises(mode_interval, windows) THEN Raise(df, "OverflowError")
        ELSE IF ~HasColumn(df, "water_level") /\ windows # <<>>
                  /\ (InSeq("mean", statistics) \/ InSeq("std", statistics))
             THEN Raise(df, "KeyError")
        ELSE IF RollingWindowRaises(windows, statistics, min_periods, mode_interval)
             THEN Raise(df, "ValueError")
        ELSE FoldSeq(LAMBDA acc, window : WithStd(WithMean(acc, window), window),
                     df, windows)

ApplyRollingStatistics(df, config) ==
    LET windows == Get(config, "windows", <<3, 6, 12, 24>>)
        statistics == Get(config, "statistics", <<"mean", "std">>)
        min_periods == Get(config, "min_periods", 1)
    IN  IF MultiStation(df)
        THEN FoldSeq(LAMBDA acc, station :
                        RollingStation(acc, windows, statistics, min_periods, station),
                     df, Stations(df))
        ELSE RollingSingle(df, windows, statistics, min_periods)

ChangeColumn(period) == "water_level_change_" \o ToString(period) \o "h"

ChangeStation(df, periods, station) ==
    LET idx == StationIdx(df, station)
        station_df == SortByMeasuredAt(TakeRows(df, idx))
        mode_interval == ModeInterval(Times(station_df))
    IN  IF df.error # "" THEN df
        ELSE IF ~HasColumn(df, "measured_at") THEN Raise(df, "KeyError")
        ELSE IF NRows(station_df) <= 1 THEN df
        ELSE IF ShiftRaises(mode_interval, periods) THEN Raise(df, "OverflowError")
        ELSE IF ~HasColumn(df, "water_level") /\ periods # <<>>
             THEN Raise(df, "KeyError")
        ELSE FoldSeq(LAMBDA acc, period :
                        AssignAt(acc, ChangeColumn(period), idx,
                                 Diff(Column(station_df, "water_level"),
                                      ShiftPeriods(period, mode_interval))),
                     df, periods)

ChangeSingle(df, periods) ==
    LET mode_interval == ModeInterval(Times(SortByMeasuredAt(df)))
    IN  IF NRows(df) <= 1 THEN df
        ELSE IF ~HasColumn(df, "measured_at") THEN Raise(df, "KeyError")
        ELSE IF ShiftRaises(mode_interval, periods) THEN Raise(df, "OverflowError")
        ELSE IF ~HasColumn(df, "water_level") /\ periods # <<>>
             THEN Raise(df, "KeyError")
        ELSE FoldSeq(LAMBDA acc, period :
                        SetColumn(acc, ChangeColumn(period),
                                  Diff(Column(acc, "water_level"),
                                       ShiftPeriods(period, mode_interval))),
                     df, periods)

ApplyRateOfChange(df, config) ==
    LET periods == Get(config, "periods", <<1, 3, 6>>)
    IN  IF MultiStation(df)
        THEN FoldSeq(LAMBDA acc, station : ChangeStation(acc, periods, station),
                     df, Stations(df))
        ELSE ChangeSingle(df, periods)

\* measured_at.dt.hour, .dayofweek (Monday = 0), .day, .month of a December
\* 2025 timestamp given in minutes since Monday 2025-12-01T00:00Z
HourOf(t) == (t \div 60) % 24

DayOfWeekOf(t) == (t \div (24 * 60)) % 7

MonthOf(t) == 12 + 0 * t

ApplyTimeFeatures(df, config) ==
    LET hour_cycle == Get(config, "hour_cycle", 24)
        month_cycle == Get(config, "month_cycle", 12)
        t == Times(df)
        n == NRows(df)
        d1 == SetColumn(df, "hour", [i \in 1..n |-> Num(HourOf(t[i]))])
        d2 == SetColumn(d1, "day_of_week", [i \in 1..n |-> Num(DayOfWeekOf(t[i]))])
        d3 == SetColumn(d2, "day_of_month", [i \in 1..n |-> Num(1 + (t[i] \div (24 * 60)))])
        d4 == SetColumn(d3, "month", [i \in 1..n |-> Num(MonthOf(t[i]))])
        d5 == SetColumn(d4, "is_weekend",
                        [i \in 1..n |-> Num(IF DayOfWeekOf(t[i]) >= 5 THEN 1 ELSE 0)])
        d6 == SetColumn(d5, "hour_sin", [i \in 1..n |-> <<HourOf(t[i]), hour_cycle>>])
        d7 == SetColumn(d6, "hour_cos", [i \in 1..n |-> <<HourOf(t[i]), hour_cycle>>])
        d8 == SetColumn(d7, "month_sin", [i \in 1..n |-> <<MonthOf(t[i]) - 1, month_cycle>>])
    IN  IF ~HasColumn(df, "measured_at") THEN Raise(df, "KeyError")
        ELSE SetColumn(d8, "month_cos", [i \in 1..n |-> <<MonthOf(t[i]) - 1, month_cycle>>])

RainfallColumn(window) == "rainfall_sum_" \o ToString(window) \o "h"

\* groupby('station_id')[col].transform(f): f over each station's cells in
\* frame order, written back at that station's rows
GroupTransform(df, source, target, F(_)) ==
    FoldSeq(LAMBDA acc, station :
                LET idx == StationIdx(df, station)
                IN  AssignAt(acc, target, idx, F(Column(TakeRows(df, idx), source))),
            df, Stations(df))

ApplyRainfallFeatures(df, config) ==
    LET windows == Get(config, "windows", <<3, 6, 12, 24>>)
        Sum(acc, window) ==
            IF MultiStation(df)
            THEN GroupTransform(acc, "rainfall_1h", RainfallColumn(window),
                                LAMBDA cells : RollingSum(cells, window, 1))
            ELSE SetColumn(acc, RainfallColumn(window),
                           RollingSum(Column(acc, "rainfall_1h"), window, 1))
    IN  IF ~HasColumn(df, "rainfall_1h") THEN df
        ELSE IF \E k \in 1..Len(windows) : RollingRaises(windows[k], 1)
             THEN Raise(df, "ValueError")
        ELSE FoldSeq(Sum, df, windows)

ApplyWeatherInteractions(df, config) ==
    LET
        \* temperature * humidity / 100
        Interaction(temperature, humidity) ==
            IF NotNull(temperature) /\ NotNull(humidity)
            THEN Num(ExactDiv(Val(temperature) * Val(humidity), 100))
            ELSE NaN
        d1 == IF HasColumn(df, "temperature") /\ HasColumn(df, "humidity")
              THEN SetColumn(df, "temp_humidity_interaction",
                             [i \in 1..NRows(df) |->
                                 Interaction(df.rows[i]["temperature"],
                                             df.rows[i]["humidity"])])
              ELSE df
    IN  IF ~HasColumn(df, "pressure") THEN d1
        ELSE IF MultiStation(df)
        THEN GroupTransform(d1, "pressure", "pressure_diff_3h",
                            LAMBDA cells : Diff(cells, 3))
        ELSE SetColumn(d1, "pressure_diff_3h", Diff(Column(d1, "pressure"), 3))

ApplyStationStatistics(df, config) ==
    LET
        \* water_level - station_mean
        Deviation(level, mean) ==
            IF NotNull(level) /\ NotNull(mean) THEN Num(Val(level) - Val(mean)) ELSE NaN
        n == NRows(df)
        level == Column(df, "water_level")
        m1 == GroupTransform(df, "water_level", "station_water_mean",
                             LAMBDA cells : [i \in 1..Len(cells) |-> SeriesMean(cells)])
        m2 == GroupTransform(m1, "water_level", "station_water_std",
                             LAMBDA cells : [i \in 1..Len(cells) |-> SeriesStd(cells)])
        s1 == SetColumn(df, "station_water_mean", [i \in 1..n |-> SeriesMean(level)])
        s2 == SetColumn(s1, "station_water_std", [i \in 1..n |-> SeriesStd(level)])
        d == IF MultiStation(df) THEN m2 ELSE s2
    IN  IF ~HasColumn(df, "water_level") THEN Raise(df, "KeyError")
        ELSE SetColumn(d, "water_level_deviation",
                       [i \in 1..n |-> Deviation(d.rows[i]["water_level"],
                                                 d.rows[i]["station_water_mean"])])

(***************************************************************************)
(* Target constructor                                                      *)
(***************************************************************************)
TargetColumn(horizon) == "target_" \o ToString(horizon) \o "min"

data_interval_minutes == 15

\* horizon // data_interval_minutes
TargetShift(horizon) == horizon \div data_interval_minutes

\* create_targets without the per-station grouping
CreateTargetsUngrouped(df, config) ==
    LET horizons == Get(config, "prediction_horizons", <<15, 30, 45, 60, 90>>)
    IN  FoldSeq(LAMBDA acc, horizon :
                    SetColumn(acc, TargetColumn(horizon),
                              Shift(Column(acc, "water_level"), 0 - TargetShift(horizon))),
                df, horizons)

CreateTargets(df, config) ==
    LET horizons == Get(config, "prediction_horizons", <<15, 30, 45, 60, 90>>)
        has_multiple_stations == MultiStation(df)
        Target(acc, horizon) ==
            IF has_multiple_stations
            THEN GroupTransform(acc, "water_level", TargetColumn(horizon),
                                LAMBDA cells : Shift(cells, 0 - TargetShift(horizon)))
            ELSE SetColumn(acc, TargetColumn(horizon),
                           Shift(Column(acc, "water_level"), 0 - TargetShift(horizon)))
    IN  FoldSeq(Target, df, horizons)

(***************************************************************************)
(* Data cleaner                                                            *)
(***************************************************************************)
RECURSIVE SortNums(_)
SortNums(xs) ==
    IF xs = <<>> THEN <<>>
    ELSE LET front == SortNums(SubSeq(xs, 1, Len(xs) - 1))
             x == xs[Len(xs)]
             k == Cardinality({j \in 1..Len(front) : front[j] <= x})
         IN  SubSeq(front, 1, k) \o <<x>> \o SubSeq(front, k + 1, Len(front))

RECURSIVE Gcd(_, _)
Gcd(a, b) == IF b = 0 THEN a ELSE Gcd(b, a % b)

Abs(x) == IF x < 0 THEN 0 - x ELSE x

\* a column of standard deviations: its cells hold radicands
IsStdColumn(col) == Contains(col, "_std")

\* Series.median() as a cell: NaN when no cell is valid
MedianCell(cells, col) ==
    LET v == SortNums(Valid(cells))
        n == Len(v)
        lo == v[n \div 2]
        hi == v[n \div 2 + 1]
    IN  IF n = 0 THEN NaN
        ELSE IF n % 2 = 1 THEN Num(v[(n + 1) \div 2])
        ELSE IF lo = hi THEN Num(lo)
        ELSE IF IsStdColumn(col) THEN <<lo, hi>>
        ELSE Num(ExactDiv(lo + hi, 2))

\* Series.mean() as a cell: <<q>> when the mean is the integer q, else the
\* reduced fraction <<num, den>>; for a column of standard deviations the
\* radicands whose roots are averaged
MeanCell(cells, col) ==
    LET v == SortNums(Valid(cells))
        n == Len(v)
        sum == SeqSum(v)
        g == Gcd(Abs(sum), n)
    IN  IF n = 0 THEN NaN
        ELSE IF IsStdColumn(col) THEN (IF \A i \in 1..n : v[i] = v[1] THEN Num(v[1]) ELSE v)
        ELSE IF sum % n = 0 THEN Num(sum \div n)
        ELSE <<sum \div g, n \div g>>

CleanData(df, config) ==
    LET
        \* Series.fillna(value); fillna(NaN) changes nothing
        FillNa(cells, value) == [i \in 1..Len(cells) |-> IF IsNull(cells[i]) THEN value ELSE cells[i]]
        \* [col for col in df.columns if 'lag_' in col]
        lag_cols == SelectSeq(df.columns, LAMBDA col : Contains(col, "lag_"))
        kept == IF Get(config, "remove_rows_with_missing_lags", TRUE) /\ lag_cols # <<>>
                THEN \* dropna(subset=lag_cols): the rows with no null in them
                     TakeRows(df, SelectSeq(Indices(df.rows),
                                            LAMBDA i : \A k \in 1..Len(lag_cols) :
                                                NotNull(df.rows[i][lag_cols[k]])))
                ELSE df
        \* select_dtypes(include=[np.number]) minus exclude_cols:
        \* measured_at is the one column of the model that is not numeric
        numeric_cols ==
            SelectSeq(kept.columns,
                      LAMBDA col : col \notin {"measured_at", "created_at", "id",
                                               "station_id"})
        strategy == Get(config, "missing_value_strategy", "median")
        Impute(acc, col) ==
            IF \E i \in 1..NRows(acc) : IsNull(acc.rows[i][col])
            THEN SetColumn(acc, col,
                           FillNa(Column(acc, col),
                                  IF strategy = "median"
                                  THEN MedianCell(Column(acc, col), col)
                                  ELSE MeanCell(Column(acc, col), col)))
            ELSE acc
    IN  IF strategy \in {"median", "mean"}
        THEN FoldSeq(Impute, kept, numeric_cols)
        ELSE kept

(***************************************************************************)
(* State                                                                   *)
(***************************************************************************)
VARIABLES
    station_measurements,   \* rows of the station_measurements table, in storage order
    weather_measurements,   \* rows of the weather_measurements table
    merge_available,        \* FALSE: the queries of the weather merge raise
    preprocessing_configs,  \* rows of the preprocessing_configs table, in storage
                            \* order: [method_id, enabled, config]
    forecasts,              \* rows of the forecasts table: [station_id, forecast_date,
                            \* target_date, water_level]
    script_runs,            \* the runs of init_data_range_config.py: those started,
                            \* and those between their select and their insert
    previous,               \* the result of the call before the last one
    model_registry,         \* horizon -> the registered models of the horizon, per family
    request,                \* the call being served
    response,               \* what the call returned or raised
    local,                  \* the local variables of the call being served
    writes,                 \* requests other clients have made that write the configs,
                            \* the forecasts or the registry
    write_budget,           \* the writes of other clients explored while the call is served
    pc                      \* the position of the call: "idle" before it, then the
                            \* round trip it makes next, "done" once it has returned

vars == <<station_measurements, weather_measurements, merge_available,
          preprocessing_configs, forecasts, script_runs, model_registry, request,
          response, previous, local, writes, write_budget, pc>>

(***************************************************************************)
(* Measurement source: get_station_data and the weather merge              *)
(***************************************************************************)
ExcludedStations == {1, 7}

tolerance_hours == 2

StationColumns == <<"id", "station_id", "measured_at", "water_level">>

\* the columns the weather table adds to the merged frame (its id, station_id
\* and created_at are dropped after the merge)
WeatherColumns(weather) ==
    IF weather = <<>> THEN <<>>
    ELSE SelectSeq(<<"temperature", "humidity", "pressure", "rainfall_1h",
                     "weather_lag_minutes">>,
                   LAMBDA col : col \in DOMAIN weather[1])

\* pd.merge_asof(direction='nearest', tolerance): the position of the weather
\* row nearest in time, the earlier one on a tie, 0 when none is within the
\* tolerance
NearestWeather(t, weather, tolerance) ==
    LET Dist(k) == Abs(Val(weather[k]["measured_at"]) - t)
        near == {k \in 1..Len(weather) :
                    /\ Dist(k) <= tolerance
                    /\ \A j \in 1..Len(weather) : Dist(k) <= Dist(j)}
    IN  IF near = {} THEN 0
        ELSE CHOOSE k \in near :
                \A j \in near : Val(weather[k]["measured_at"]) <= Val(weather[j]["measured_at"])

\* DataMergeService.merge_station_with_weather: every station row, sorted on
\* measured_at, with the columns of its nearest weather row
MergeStationWithWeather(stations, weather, tolerance) ==
    LET sorted == SortByMeasuredAt(Frame(StationColumns, stations))
        extra == WeatherColumns(weather)
        Merged(row) ==
            LET k == NearestWeather(Val(row["measured_at"]), weather, tolerance * 60)
            IN  [c \in (DOMAIN row) \cup {extra[j] : j \in 1..Len(extra)} |->
                    IF c \in DOMAIN row THEN row[c]
                    ELSE IF k = 0 THEN NaN
                    ELSE weather[k][c]]
    IN  IF stations = <<>> \/ weather = <<>> THEN Raise(sorted, "MergeError")
        ELSE Frame(StationColumns \o extra,
                   [i \in 1..NRows(sorted) |-> Merged(sorted.rows[i])])

\* a frame that keeps the rows of every station
KeepStations(df) == df

\* df[~df['station_id'].isin([1, 7])]
ExcludeStations(df) ==
    TakeRows(df, SelectSeq(Indices(df.rows),
                           LAMBDA i : Val(df.rows[i]["station_id"]) \notin ExcludedStations))

\* df[df['station_id'] == station_id]
OnlyStation(df, station_id) == TakeRows(df, StationIdx(df, station_id))

\* a date argument is the string the caller passes, "" for None
NoDate == ""

\* f'{start_date}T00:00:00+00:00' and f'{end_date}T23:59:59+00:00': the
\* bounds merge_station_with_weather sends, whatever the argument holds
MergeBounds(start_date, end_date) ==
    (IF start_date # NoDate THEN <<start_date \o "T00:00:00+00:00">> ELSE <<>>)
    \o (IF end_date # NoDate THEN <<end_date \o "T23:59:59+00:00">> ELSE <<>>)

\* the bounds of the station-only query: the argument as it is when it
\* holds a 'T', with the time of day appended otherwise
StationBounds(start_date, end_date) ==
    (IF start_date = NoDate THEN <<>>
     ELSE IF Contains(start_date, "T") THEN <<start_date>>
     ELSE <<start_date \o "T00:00:00+00:00">>)
    \o (IF end_date = NoDate THEN <<>>
        ELSE IF Contains(end_date, "T") THEN <<end_date>>
        ELSE <<end_date \o "T23:59:59+00:00">>)

\* the database reads a bound as a timestamp: a date with at most one time
\* of day; a text with a second time part is rejected and the query raises
BoundsAccepted(bounds) ==
    LET
        \* the number of times a character occurs in a string
        CountOf(str, ch) ==
            Len(SelectSeq(Indices(str), LAMBDA i : SubSeq(str, i, i) = ch))
    IN
        \A k \in 1..Len(bounds) : CountOf(bounds[k], "T") <= 1

\* the weather-merge branch of get_station_data: the frame it returns, or the
\* frame with the exception that sends the call to the station-only branch
MergedStationData(stations, weather, available, station_id) ==
    LET merged == MergeStationWithWeather(stations, weather, tolerance_hours)
        active == ExcludeStations(merged)
        mine == OnlyStation(active, station_id)
    IN  IF ~available THEN Raise(Frame(<<>>, <<>>), "MergeError")
        ELSE IF merged.error # "" THEN merged
        ELSE IF IsNull(station_id) THEN SortByMeasuredAt(active)
        ELSE IF Val(station_id) \in ExcludedStations THEN Raise(active, "ExcludedStation")
        ELSE IF NRows(mine) = 0 THEN Raise(mine, "NoDataInMergedResult")
        ELSE SortByMeasuredAt(mine)

\* the station-only branch of get_station_data
StationOnlyData(stations, station_id) ==
    LET all == Frame(StationColumns, stations)
        active == ExcludeStations(all)
        mine == IF IsNull(station_id) THEN active ELSE OnlyStation(active, station_id)
        ordered == SortByMeasuredAt(mine)
    IN  IF NotNull(station_id) /\ Val(station_id) \in ExcludedStations
        THEN Raise(Frame(<<>>, <<>>), "ExcludedStation")
        ELSE IF NRows(ordered) = 0 THEN Raise(ordered, "NoDataFound")
        ELSE SortByMeasuredAt(ordered)   \* the query's order, then sort_values

\* the station-only query: the rows, or the error of a bound the database
\* does not read as a timestamp
StationQueryData(stations, station_id, start_date, end_date) ==
    IF BoundsAccepted(StationBounds(start_date, end_date))
    THEN StationOnlyData(stations, station_id)
    ELSE Raise(Frame(<<>>, <<>>), "APIError")

\* the station-only branch entered after the merge raised: the excluded
\* station is refused before the query is sent
StationQuerySkipped(station_id) ==
    NotNull(station_id) /\ Val(station_id) \in ExcludedStations

\* get_station_data(station_id, start_date, end_date, include_weather=True)
\* over one reading of the tables: the frame, or the frame with the
\* ValueError it raises; calls lists the collaborators it used.  Every row
\* of the tables lies between the bounds.
GetStationData(stations, weather, available, station_id, start_date, end_date) ==
    LET merged == MergedStationData(
                      stations, weather,
                      available /\ BoundsAccepted(MergeBounds(start_date, end_date)),
                      station_id)
    IN  IF merged.error = ""
        THEN [df |-> merged, calls |-> <<"merge_station_with_weather">>]
        ELSE [df |-> StationQueryData(stations, station_id, start_date, end_date),
              calls |-> IF StationQuerySkipped(station_id)
                        THEN <<"merge_station_with_weather">>
                        ELSE <<"merge_station_with_weather", "station_measurements_query">>]

(***************************************************************************)
(* Pipeline orchestrator                                                   *)
(***************************************************************************)
NoConfig == [key \in {} |-> 0]

\* the steps with the cleaning ahead of the target creation
PipelineStepsCleaningFirst ==
    <<"time_features", "lag_features", "rolling_statistics", "rate_of_change",
      "rainfall_features", "weather_interactions", "station_statistics",
      "data_cleaning", "target_creation">>

PipelineSteps ==
    <<"time_features", "lag_features", "rolling_statistics", "rate_of_change",
      "rainfall_features", "weather_interactions", "station_statistics",
      "target_creation", "data_cleaning">>

\* the condition under which preprocess_data runs a step
StepRuns(configs, step) ==
    IF step = "time_features"
    THEN step \in DOMAIN configs /\ Get(configs[step], "enabled", TRUE)
    ELSE step \in DOMAIN configs

\* target_config['prediction_horizons'] = prediction_horizons
WithHorizons(config, prediction_horizons) ==
    [key \in (DOMAIN config) \cup {"prediction_horizons"} |->
        IF key = "prediction_horizons" THEN prediction_horizons ELSE config[key]]

\* configs.pop('target_creation') in place of the read of the entry
CustomConfigsWithoutTargets(custom_configs, prediction_horizons, calls) ==
    IF InSeq("target_creation", calls)
    THEN [key \in (DOMAIN custom_configs) \ {"target_creation"} |-> custom_configs[key]]
    ELSE custom_configs

\* the caller's custom_configs after the call: the run that reaches the
\* target step has assigned prediction_horizons in the caller's own entry
CustomConfigsAfter(custom_configs, prediction_horizons, calls) ==
    IF DOMAIN custom_configs # {} /\ InSeq("target_creation", calls)
    THEN [custom_configs EXCEPT
            !["target_creation"] = WithHorizons(@, prediction_horizons)]
    ELSE custom_configs

ApplyStep(df, step, configs, prediction_horizons) ==
    CASE step = "time_features" -> ApplyTimeFeatures(df, configs[step])
      [] step = "lag_features" -> ApplyLagFeatures(df, configs[step])
      [] step = "rolling_statistics" -> ApplyRollingStatistics(df, configs[step])
      [] step = "rate_of_change" -> ApplyRateOfChange(df, configs[step])
      [] step = "rainfall_features" -> ApplyRainfallFeatures(df, configs[step])
      [] step = "weather_interactions" -> ApplyWeatherInteractions(df, configs[step])
      [] step = "station_statistics" -> ApplyStationStatistics(df, configs[step])
      [] step = "target_creation" ->
            CreateTargets(df, WithHorizons(configs[step], prediction_horizons))
      [] step = "data_cleaning" -> CleanData(df, configs[step])

\* the given steps of preprocess_data, in the order of the code; a step that
\* raises ends the run
RunSteps(start, steps, configs, prediction_horizons) ==
    FoldSeq(LAMBDA acc, step :
                IF acc.df.error # "" \/ ~StepRuns(configs, step) THEN acc
                ELSE [df |-> ApplyStep(acc.df, step, configs, prediction_horizons),
                      calls |-> Append(acc.calls, step)],
            start, steps)

\* the dictionary preprocess_data returns, or status "error" with the
\* exception that left the call.  before_cleaning is the local df on reaching
\* the cleaning step and configs the local configs, kept for the properties.
PreprocessResult(got, featured, ran, station_id, configs) ==
    LET TargetCols(df) == SelectSeq(df.columns, LAMBDA col : StartsWith(col, "target_"))
        \* [col for col in df.columns if col not in exclude_from_features
        \*                               and not col.startswith('target_')]
        FeatureCols(df) ==
            SelectSeq(df.columns,
                      LAMBDA col : /\ col \notin {"id", "station_id", "measured_at", "created_at"}
                                   /\ ~StartsWith(col, "target_"))
    IN
        [status |-> IF ran.df.error = "" THEN "success" ELSE "error",
         error |-> ran.df.error,
         station_id |-> station_id,
         processed_data |-> IF ran.df.error = "" THEN ran.df ELSE Frame(<<>>, <<>>),
         before_cleaning |-> IF ran.df.error = "" THEN featured.df ELSE Frame(<<>>, <<>>),
         records_processed |-> IF ran.df.error = "" THEN NRows(ran.df) ELSE 0,
         features_generated |-> IF ran.df.error = "" THEN Len(FeatureCols(ran.df)) ELSE 0,
         target_count |-> IF ran.df.error = "" THEN Len(TargetCols(ran.df)) ELSE 0,
         initial_records |-> IF got.df.error = "" THEN NRows(got.df) ELSE 0,
         final_records |-> IF ran.df.error = "" THEN NRows(ran.df) ELSE 0,
         records_removed |-> IF ran.df.error = "" THEN NRows(got.df) - NRows(ran.df) ELSE 0,
         configs_used |-> DOMAIN configs,
         configs |-> configs,
         calls |-> ran.calls]

\* the steps of preprocess_data on the frame get_station_data returned: the
\* last step runs on the frame the steps before it built
PreprocessFetched(got, first, station_id, prediction_horizons, configs) ==
    LET featured == RunSteps([df |-> got.df, calls |-> first \o got.calls],
                             SubSeq(PipelineSteps, 1, 8), configs, prediction_horizons)
    IN  PreprocessResult(got, featured,
                         RunSteps(featured, SubSeq(PipelineSteps, 9, 9), configs,
                                  prediction_horizons),
                         station_id, configs)

\* get_preprocessing_configs: configs[row['method_id']] = row['config'] over
\* the enabled rows, in the order the select returns them (the storage
\* order); of two rows of one method the later one stays
GetPreprocessingConfigs(table) ==
    LET rows == SelectSeq(table, LAMBDA row : row.enabled)
    IN  [method_id \in {rows[k].method_id : k \in 1..Len(rows)} |->
            rows[CHOOSE k \in 1..Len(rows) :
                    /\ rows[k].method_id = method_id
                    /\ \A j \in (k + 1)..Len(rows) : rows[j].method_id # method_id].config]

\* `if custom_configs:` a map that is given and not empty
UsesCustom(custom_configs) == DOMAIN custom_configs # {}

\* the local configs of preprocess_data: the caller's map, or the answer of
\* get_preprocessing_configs
ResolveConfigs(custom_configs, table) ==
    IF UsesCustom(custom_configs) THEN custom_configs
    ELSE GetPreprocessingConfigs(table)

\* preprocess_data over one reading of the tables: custom configs when given
\* and not empty, the database's otherwise; then the station data and the steps
PreprocessData(stations, weather, available, table, station_id, dates, prediction_horizons, custom_configs) ==
    PreprocessFetched(GetStationData(stations, weather, available, station_id,
                                     dates[1], dates[2]),
                      IF UsesCustom(custom_configs) THEN <<>>
                      ELSE <<"get_preprocessing_configs">>,
                      station_id, prediction_horizons,
                      ResolveConfigs(custom_configs, table))

\* the feature transforms, the methods apply_* of the service
TransformSteps == SubSeq(PipelineSteps, 1, 7)

\* the outcome of a direct call of one feature transform on a frame: the
\* frame it returns, or the exception it raises
ApplyTransform(df, step, configs) ==
    LET out == ApplyStep(df, step, configs, <<>>)
    IN  [status |-> IF out.error = "" THEN "success" ELSE "error",
         error |-> out.error,
         input |-> df,
         output |-> out,
         calls |-> <<step>>]

(***************************************************************************)
(* Inference feature preparer                                              *)
(***************************************************************************)
\* the columns prepare_latest_data_for_prediction keeps as features
LatestFeatureCols(df) ==
    SelectSeq(df.columns,
              LAMBDA col : /\ ~StartsWith(col, "target_")
                           /\ col \notin {"measured_at", "id", "created_at",
                                          "fetched_at", "source", "status"})

\* the last row of the frame, a null feature replaced by the mean of its
\* column, or by 0 when the column has no value
LatestRow(df, feature_cols) ==
    FoldSeq(LAMBDA acc, col :
                IF NotNull(acc.rows[1][col]) THEN acc
                ELSE SetColumn(acc, col,
                               <<IF IsNull(MeanCell(Column(df, col), col)) THEN Num(0)
                                 ELSE MeanCell(Column(df, col), col)>>),
            TakeColumns(TakeRows(df, <<NRows(df)>>), feature_cols),
            feature_cols)

\* what prepare_latest_data_for_prediction makes of the result of preprocess_data
LatestOf(result) ==
    IF result.status = "error"
    THEN [status |-> "error", error |-> result.error, calls |-> result.calls]
    ELSE IF NRows(result.processed_data) = 0
    THEN [status |-> "none", error |-> "", calls |-> result.calls]
    ELSE [status |-> "success", error |-> "", calls |-> result.calls,
          df |-> result.processed_data,
          X_latest |-> LatestRow(result.processed_data,
                                 LatestFeatureCols(result.processed_data)),
          feature_names |-> LatestFeatureCols(result.processed_data)]

\* start_date and end_date of prepare_latest_data_for_prediction:
\* (datetime.utcnow() - timedelta(days=30)).isoformat() and
\* datetime.utcnow().isoformat(), read on 2025-12-01 at 06:00:00.5 UTC
LatestDates == <<"2025-11-01T06:00:00.500000", "2025-12-01T06:00:00.500000">>

(***************************************************************************)
(* Recursive predictor (routers/predict.py, generate_forecasts_endpoint)   *)
(*                                                                         *)
(* A registry entry of a horizon holds, per model family, a record         *)
(* [registered, versions, loads, model]: the outcome of                    *)
(* search_registered_models ("absent", "raises" or "registered"), the      *)
(* number of versions, whether the latest version loads, and the model.    *)
(* A model is [declared, feature_names_in_, coef_, intercept_, scaler]: a  *)
(* linear model, with feature_names_in_ when it was fitted on a named      *)
(* frame; scaler is [present, mean_], a StandardScaler of unit scale       *)
(* fitted on the same columns as the model.                                *)
(***************************************************************************)
\* for model_type in ["ridge", "linear"]: the first family whose search
\* returns a registered model, "" when none does; a search that raises is
\* passed over
ModelName(entry) ==
    IF entry["ridge"].registered = "registered" THEN "ridge"
    ELSE IF entry["linear"].registered = "registered" THEN "linear"
    ELSE ""

\* the value given to an expected feature the vector lacks
MissingValue(feat, feature_names, scaler) ==
    IF scaler.present /\ InSeq(feat, feature_names)
    THEN LET feat_idx == CHOOSE k \in 1..Len(feature_names) : feature_names[k] = feat
         IN  IF feat_idx <= Len(scaler.mean_) THEN Num(scaler.mean_[feat_idx])
             ELSE Num(0)
    ELSE Num(0)

\* the vector with the expected features added, its own columns first
MatchFeaturesUnordered(X_current, feature_names, model) ==
    Frame(SelectSeq(X_current.columns,
                    LAMBDA col : InSeq(col, model.feature_names_in_))
            \o SelectSeq(model.feature_names_in_,
                         LAMBDA col : ~HasColumn(X_current, col)),
          <<[col \in {model.feature_names_in_[k] : k \in 1..Len(model.feature_names_in_)} |->
                IF HasColumn(X_current, col) THEN X_current.rows[1][col]
                ELSE MissingValue(col, feature_names, model.scaler)]>>)

\* the vector with the model's expected features, in the model's order
MatchFeatures(X_current, feature_names, model) ==
    Frame(model.feature_names_in_,
          <<[col \in {model.feature_names_in_[k] : k \in 1..Len(model.feature_names_in_)} |->
                IF HasColumn(X_current, col) THEN X_current.rows[1][col]
                ELSE MissingValue(col, feature_names, model.scaler)]>>)

\* the frame handed to scaler and model: matched when the model declares
\* its feature names, X_current as it is otherwise
ModelInput(X_current, feature_names, model) ==
    IF model.declared THEN MatchFeatures(X_current, feature_names, model)
    ELSE X_current

\* float(np.mean(model.predict(X_scaled_df))) for the single row:
\* intercept_ + coef_ . x_scaled, over the columns of non-zero coefficient
Predict(X, model) ==
    LET \* scaler.transform(X): (x - mean_) / scale_ with unit scale; the
        \* features as they are when the model has no scaler
        X_scaled ==
            [k \in 1..Len(X.columns) |->
                Val(X.rows[1][X.columns[k]])
                    - (IF model.scaler.present THEN model.scaler.mean_[k] ELSE 0)]
    IN  model.intercept_
        + SeqSum([k \in 1..Len(X.columns) |->
                    IF model.coef_[k] = 0 THEN 0 ELSE model.coef_[k] * X_scaled[k]])

\* RECURSIVE UPDATE: water_level and water_level_lag_1h take the previous
\* prediction, when there is one and the vector has the column
RecursiveUpdate(X_current, previous_prediction) ==
    IF IsNull(previous_prediction) THEN X_current
    ELSE [X_current EXCEPT !.rows =
            <<[col \in DOMAIN X_current.rows[1] |->
                IF col \in {"water_level", "water_level_lag_1h"}
                      /\ HasColumn(X_current, col)
                THEN previous_prediction
                ELSE X_current.rows[1][col]]>>]

NoModel == [registered |-> "absent", versions |-> 0, loads |-> FALSE]

\* forecast_date = datetime.utcnow() of generate_forecasts_endpoint, read on
\* 2025-12-01 at 06:00 UTC: in minutes since 2025-12-01T00:00Z, as measured_at
forecast_date == 6 * 60

\* the horizon is left with `continue`
Skipped(acc, horizon, X_current) ==
    [acc EXCEPT !.X_current = X_current, !.attempted = Append(@, horizon)]

\* the horizon's model predicts from the frame X; the forecast_record holds
\* round(predicted_value, 3), in thousandths
Forecast(acc, horizon, family, X, model) ==
    LET predicted_value == Predict(X, model)
        \* round(num / den): to the nearest integer, a tie to the even one
        round(num, den) ==
            IF 2 * (num % den) < den THEN num \div den
            ELSE IF 2 * (num % den) > den THEN (num \div den) + 1
            ELSE IF (num \div den) % 2 = 0 THEN num \div den
            ELSE (num \div den) + 1
    IN
    [X_current |-> X,
     previous_prediction |-> Num(predicted_value),
     all_forecasts |-> Append(acc.all_forecasts,
                              [station_id |-> acc.station_id,
                               forecast_date |-> forecast_date,
                               target_date |-> forecast_date + horizon,
                               water_level |-> round(1000 * predicted_value, Unit)]),
     fed |-> Append(acc.fed,
                    [horizon |-> horizon, family |-> family, X |-> X,
                     predicted_value |-> predicted_value,
                     missing_features |->
                        IF model.declared
                        THEN SelectSeq(model.feature_names_in_,
                                       LAMBDA col : ~HasColumn(acc.X_current, col))
                        ELSE <<>>]),
     attempted |-> Append(acc.attempted, horizon),
     seen |-> acc.seen,
     X_latest |-> acc.X_latest,
     station_id |-> acc.station_id]

\* the try block once the latest version is loaded: feature matching, the
\* scaler and the prediction; an exception leaves X_current as it was made
UseModel(acc, horizon, family, X, model) ==
    LET \* scaler.transform and model.predict raise on a frame that has not the
        \* number of columns they were fitted on
        raises ==
            \/ model.scaler.present /\ Len(X.columns) # Len(model.scaler.mean_)
            \/ Len(X.columns) # Len(model.coef_)
    IN  IF raises THEN Skipped(acc, horizon, X)
        ELSE Forecast(acc, horizon, family, X, model)

\* the try block of one horizon for the resolved registry entry
LoadAndUse(acc, horizon, family, updated, resolved, feature_names) ==
    IF resolved.versions = 0 \/ ~resolved.loads THEN Skipped(acc, horizon, updated)
    ELSE UseModel(acc, horizon, family,
                  ModelInput(updated, feature_names, resolved.model), resolved.model)

\* model resolution of one horizon on the updated vector
ResolveAndUse(acc, horizon, updated, entry, feature_names) ==
    IF ModelName(entry) = "" THEN Skipped(acc, horizon, updated)
    ELSE LoadAndUse(acc, horizon, ModelName(entry), updated, entry[ModelName(entry)],
                    feature_names)

\* the registry's answers for the models of one horizon
EntryAt(registry, horizon) ==
    Get(registry, horizon, [ridge |-> NoModel, linear |-> NoModel])

\* a loop that a skipped horizon ends
ForecastStepUntilSkip(acc, horizon, registry, feature_names) ==
    IF Len(acc.attempted) > Len(acc.all_forecasts)
    THEN [acc EXCEPT !.seen = Append(@, EntryAt(registry, horizon))]
    ELSE ResolveAndUse([acc EXCEPT !.seen = Append(@, EntryAt(registry, horizon))],
                       horizon,
                       RecursiveUpdate(acc.X_current, acc.previous_prediction),
                       EntryAt(registry, horizon), feature_names)

\* one iteration of the loop over request.horizons_minutes, on the registry
\* as the iteration finds it
ForecastStep(acc, horizon, registry, feature_names) ==
    ResolveAndUse([acc EXCEPT !.seen = Append(@, EntryAt(registry, horizon))],
                  horizon,
                  RecursiveUpdate(acc.X_current, acc.previous_prediction),
                  EntryAt(registry, horizon), feature_names)

\* the response once the loop has ended: HTTP 400 without a forecast
ForecastResponse(loop, calls) ==
    [status |-> IF loop.all_forecasts = <<>> THEN "error" ELSE "success",
     http |-> IF loop.all_forecasts = <<>> THEN 400 ELSE 200,
     error |-> IF loop.all_forecasts = <<>> THEN "NoForecasts" ELSE "",
     forecasts |-> loop.all_forecasts,
     forecasts_generated |-> Len(loop.all_forecasts),
     fed |-> loop.fed,
     attempted |-> loop.attempted,
     seen |-> loop.seen,
     X_latest |-> loop.X_latest,
     calls |-> Append(calls, "forecast_loop")]

NoLoop(http, error, calls) ==
    [status |-> "error", http |-> http, error |-> error, forecasts |-> <<>>,
     forecasts_generated |-> 0, fed |-> <<>>, attempted |-> <<>>, seen |-> <<>>,
     calls |-> calls]

(***************************************************************************)
(* Inputs of the bounded model                                             *)
(***************************************************************************)
\* most rows one active station reports in the window
MaxRows == 5

Cadences == {15, 30, 45}

\* n rows of one station; the second water_level of a "missing" series is null
Series(station, n, cadence, shape, first_id) ==
    LET LevelPattern == <<3, 1, 4, 2, 6, 5, 7>>
        \* the k-th timestamp of the series: a regular cadence, with one gap of
        \* three intervals after the second row, or with its first timestamp
        \* reported twice
        SeriesTime(k) ==
            CASE shape = "gap" /\ k >= 3 -> (k + 1) * cadence
              [] shape = "duplicate" /\ k >= 2 -> (k - 2) * cadence
              [] OTHER -> (k - 1) * cadence
    IN
        [k \in 1..n |->
            [id |-> Num(first_id + k),
             station_id |-> Num(station),
             measured_at |-> Num(SeriesTime(k)),
             water_level |-> IF shape = "missing" /\ k = 2 THEN NaN
                             ELSE Num(Unit * (10 * (station % 2) + LevelPattern[k]))]]

SeriesChoices(station, max, first_id) ==
    LET Shapes == {"regular", "gap", "duplicate", "missing"}
    IN
        {Series(station, 0, 15, "regular", first_id), Series(station, 1, 15, "regular", first_id)}
        \cup {Series(station, n, cadence, shape, first_id) :
                n \in 2..max, cadence \in Cadences, shape \in Shapes}

\* rows of the excluded stations 1 and 7
ExcludedRows ==
    Series(1, 3, 30, "regular", 0) \o Series(7, 1, 15, "regular", 3)

\* the second active station: absent, one row, or a regular series
OtherChoices ==
    {Series(3, n, 30, "regular", 50) : n \in {0, 1, 3}}
    \cup {Series(3, 3, 15, "regular", 50)}

WeatherRow(t, temperature, humidity, pressure, rainfall) ==
    [measured_at |-> Num(t), temperature |-> Num(temperature), humidity |-> Num(humidity),
     pressure |-> Num(pressure), rainfall_1h |-> Num(rainfall)]

WithLag(row, lag) ==
    [c \in (DOMAIN row) \cup {"weather_lag_minutes"} |->
        IF c = "weather_lag_minutes" THEN lag ELSE row[c]]

WeatherPlain == <<WeatherRow(0, 20, 50, 1000, 2), WeatherRow(60, 30, 60, 1006, 4)>>

\* a weather table that records the lag of an observation, unknown for the second
WeatherLagged == <<WithLag(WeatherPlain[1], Num(10)), WithLag(WeatherPlain[2], NaN)>>

Configs(lag_periods) ==
    [time_features |-> NoConfig,
     lag_features |-> [lag_periods |-> lag_periods],
     rolling_statistics |-> [windows |-> <<1>>, statistics |-> <<"mean", "std">>,
                             min_periods |-> 1],
     rate_of_change |-> [periods |-> <<1>>],
     rainfall_features |-> [windows |-> <<2>>],
     weather_interactions |-> NoConfig,
     station_statistics |-> NoConfig,
     target_creation |-> NoConfig,
     data_cleaning |-> NoConfig]

HorizonChoices == {<<15, 30>>, <<10, 50>>}

ScopeChoices == {NaN, Num(1), Num(2), Num(3)}

\* a caller's own configuration map: no rainfall step, and a target entry
\* that already names horizons
CustomConfigs ==
    [key \in (DOMAIN Configs(<<1>>)) \ {"rainfall_features"} |->
        IF key = "target_creation" THEN [prediction_horizons |-> <<45>>]
        ELSE Configs(<<1>>)[key]]

\* a caller's map that marks three of its steps as disabled
DisabledConfigs ==
    [key \in DOMAIN Configs(<<1>>) |->
        IF key \in {"time_features", "lag_features", "data_cleaning"}
        THEN [k \in (DOMAIN Configs(<<1>>)[key]) \cup {"enabled"} |->
                IF k = "enabled" THEN FALSE ELSE Configs(<<1>>)[key][k]]
        ELSE Configs(<<1>>)[key]]

\* the body of POST /preprocess; use_custom_configs = FALSE: no map is passed
\* on (custom_configs = None).  A body without station_id is one of them.
EndpointRequests ==
    [kind : {"preprocess"}, caller : {"endpoint"}, station_id : ScopeChoices,
     start_date : {NoDate}, end_date : {NoDate},
     prediction_horizons : HorizonChoices, use_custom_configs : {FALSE},
     custom_configs : {NoConfig}]
    \cup [kind : {"preprocess"}, caller : {"endpoint"}, station_id : ScopeChoices,
          start_date : {NoDate}, end_date : {NoDate},
          prediction_horizons : {<<15, 30>>}, use_custom_configs : {TRUE},
          custom_configs : {CustomConfigs}]
    \cup [kind : {"preprocess"}, caller : {"endpoint"}, station_id : {Num(2)},
          start_date : {NoDate}, end_date : {NoDate},
          prediction_horizons : {<<15, 30>>}, use_custom_configs : {TRUE},
          custom_configs : {DisabledConfigs, NoConfig}]
    \cup [kind : {"preprocess"}, caller : {"endpoint"}, station_id : {Num(2)},
          start_date : {"2025-12-01T00:00:00"}, end_date : {NoDate},
          prediction_horizons : {<<15, 30>>}, use_custom_configs : {FALSE},
          custom_configs : {NoConfig}]

\* the call of preprocess_data by TrainingService.prepare_training_data: one
\* station or all of them, the dates of the training range, no custom map
TrainingRequests ==
    [kind : {"preprocess"}, caller : {"training"}, station_id : {NaN, Num(2)},
     start_date : {"2025-11-01"}, end_date : {"2025-12-01"},
     prediction_horizons : HorizonChoices, use_custom_configs : {FALSE},
     custom_configs : {NoConfig}]

Requests ==
    LET
        \* a direct call of prepare_latest_data_for_prediction
        LatestRequests ==
            [kind : {"latest"}, station_id : ScopeChoices]
    IN
        EndpointRequests \cup TrainingRequests \cup LatestRequests

\* a model fitted on the named columns, with or without its scaler
Model(feature_names, intercept, means) ==
    [declared |-> TRUE, feature_names_in_ |-> feature_names,
     coef_ |-> [k \in 1..Len(feature_names) |-> 1], intercept_ |-> intercept,
     scaler |-> [present |-> means # <<>>, mean_ |-> means]]

Registered(model) ==
    [registered |-> "registered", versions |-> 1, loads |-> TRUE, model |-> model]

LevelModel ==
    Model(<<"station_id", "water_level", "water_level_lag_1h">>, 0 - Unit, <<2, Unit, Unit>>)

LagModel == Model(<<"water_level_lag_1h", "hour">>, Unit, <<>>)

\* the registry entries of one horizon
EntryChoices ==
    LET FlowModel == Model(<<"water_level", "flow_rate">>, Unit \div 2, <<Unit, 7>>)
        \* a model fitted on an array of three columns, the second one weighted
        ArrayModel ==
            [declared |-> FALSE, feature_names_in_ |-> <<>>, coef_ |-> <<0, 1, 0>>,
             intercept_ |-> Unit, scaler |-> [present |-> FALSE, mean_ |-> <<>>]]
    IN
        {[ridge |-> NoModel, linear |-> NoModel],
         [ridge |-> Registered(LevelModel), linear |-> NoModel],
         [ridge |-> Registered(LagModel), linear |-> NoModel],
         [ridge |-> Registered(FlowModel), linear |-> NoModel],
         [ridge |-> Registered(ArrayModel), linear |-> NoModel],
         [ridge |-> [Registered(LevelModel) EXCEPT !.versions = 0],
          linear |-> Registered(LevelModel)],
         [ridge |-> [NoModel EXCEPT !.registered = "raises"],
          linear |-> Registered(LevelModel)],
         [ridge |-> [Registered(LevelModel) EXCEPT !.loads = FALSE],
          linear |-> Registered(LevelModel)]}

RegistryChoices ==
    {[horizon \in {15, 30, 45} |->
        IF horizon = 15 THEN first ELSE IF horizon = 30 THEN second
        ELSE [ridge |-> IF third THEN Registered(LevelModel) ELSE NoModel,
              linear |-> NoModel]] :
        first \in EntryChoices, second \in EntryChoices, third \in BOOLEAN}

\* the bodies of POST /generate-forecasts; save_to_db is true by default
ForecastRequests ==
    [kind : {"forecast"}, station_id : {NaN, Num(1), Num(2), Num(4)},
     horizons_minutes : {<<15, 30>>, <<30, 15>>, <<15, 30, 45>>},
     save_to_db : {TRUE}]
    \cup [kind : {"forecast"}, station_id : {Num(2)},
          horizons_minutes : {<<15, 30>>}, save_to_db : {FALSE}]

\* the preprocessing_configs table with one enabled row for each step the
\* map configures
ConfigTable(configs) ==
    LET method_ids == SelectSeq(PipelineSteps, LAMBDA step : step \in DOMAIN configs)
    IN  [k \in 1..Len(method_ids) |->
            [method_id |-> method_ids[k], enabled |-> TRUE,
             config |-> configs[method_ids[k]]]]

\* most writes other clients make while a call is served
MaxWrites == 1

\* most runs of init_data_range_config.py while a call is served
MaxScriptRuns == 2

\* the requests of other clients explored while a call is served, from the
\* inputs of the call: those that write, and the runs of the script
\* init_data_range_config.py
WriteBudget ==
    LET \* the inputs under which no write of another client is explored
        QuietForecast ==
            \/ station_measurements # ExcludedRows \o Series(2, 4, 30, "regular", 10)
            \/ weather_measurements # <<>>
            \/ request.station_id # Num(2)
            \/ request.horizons_minutes # <<15, 30>>
            \/ ~request.save_to_db
            \/ model_registry[30] # [ridge |-> Registered(LevelModel), linear |-> NoModel]
            \/ model_registry[45].ridge.registered = "registered"
        QuietPreprocessing ==
            \/ station_measurements # Series(2, 4, 30, "regular", 10)
            \/ weather_measurements = WeatherLagged
        \* the inputs under which no run of the script is explored
        QuietScript ==
            \/ weather_measurements # <<>>
            \/ request.station_id # Num(2)
            \/ request.kind # "preprocess"
            \/ request.use_custom_configs
            \/ request.caller # "endpoint"
            \/ request.start_date # NoDate
            \/ request.prediction_horizons # <<15, 30>>
        quiet ==
            CASE request.kind \in {"preprocess", "latest"} -> QuietPreprocessing
              [] request.kind = "forecast" -> QuietForecast
              [] request.kind = "transform" -> TRUE
    IN
        [writes |-> IF quiet THEN 0 ELSE MaxWrites,
         script_runs |-> IF quiet \/ QuietScript THEN 0 ELSE MaxScriptRuns]

InitPreprocessing ==
    LET ConfigChoices == {Configs(<<1>>), Configs(<<1, 2>>)}
        WeatherChoices == {<<>>, WeatherPlain, WeatherLagged}
    IN
        /\ \E mine \in SeriesChoices(2, MaxRows, 10), other \in OtherChoices,
              excluded \in {<<>>, ExcludedRows} :
              station_measurements = excluded \o mine \o other
        /\ weather_measurements \in WeatherChoices
        /\ merge_available \in BOOLEAN
        /\ merge_available = FALSE => weather_measurements = <<>>
        /\ preprocessing_configs \in {ConfigTable(configs) : configs \in ConfigChoices}
        /\ model_registry = [horizon \in {} |-> NoModel]
        /\ request \in Requests
        /\ (request.kind = "preprocess" /\ UsesCustom(request.custom_configs))
                => preprocessing_configs = ConfigTable(Configs(<<1>>))

\* direct calls of a transform, on a fetched frame without some columns
TransformRequests ==
    [kind : {"transform"}, station_id : {NaN},
     step : {TransformSteps[k] : k \in 1..Len(TransformSteps)},
     without : {{}, {"water_level"}, {"measured_at"}, {"rainfall_1h"},
                {"temperature", "humidity", "pressure"}}]

InitTransform ==
    /\ \E mine \in {Series(2, 1, 30, "regular", 10), Series(2, 3, 30, "regular", 10)},
          other \in {<<>>, Series(3, 3, 30, "regular", 50)} :
          station_measurements = mine \o other
    /\ weather_measurements \in {<<>>, WeatherPlain}
    /\ merge_available = (weather_measurements # <<>>)
    /\ preprocessing_configs = ConfigTable(Configs(<<1>>))
    /\ model_registry = [horizon \in {} |-> NoModel]
    /\ request \in TransformRequests

InitForecast ==
    LET
        \* the measurements behind a forecast request
        ForecastSeriesChoices ==
            {Series(2, 0, 30, "regular", 10), Series(2, 4, 30, "regular", 10),
             Series(2, 3, 45, "regular", 10)}
    IN
        /\ \E mine \in ForecastSeriesChoices,
              other \in {<<>>, Series(3, 3, 30, "regular", 50)} :
              station_measurements = ExcludedRows \o mine \o other
        /\ weather_measurements \in {<<>>, WeatherPlain}
        /\ merge_available = (weather_measurements # <<>>)
        /\ preprocessing_configs = ConfigTable(Configs(<<1>>))
        /\ model_registry \in RegistryChoices
        /\ request \in ForecastRequests

Init ==
    LET
        \* the local variables of a call that has not started
        NoLocals ==
            [run |-> 0, configs |-> NoConfig, calls |-> <<>>, stations |-> <<>>,
             loop |-> <<>>, feature_names |-> <<>>, remaining |-> <<>>,
             entry |-> [ridge |-> NoModel, linear |-> NoModel]]
        \* a forecast of the table forecasts, made so many minutes ago
        ForecastRow(station, age) ==
            [station_id |-> Num(station), forecast_date |-> forecast_date - age,
             target_date |-> forecast_date - age + 15, water_level |-> 3000]
    IN
        /\ InitPreprocessing \/ InitForecast \/ InitTransform
        /\ forecasts = <<ForecastRow(2, 8 * 24 * 60), ForecastRow(3, 8 * 24 * 60),
                         ForecastRow(2, 3 * 60), ForecastRow(2, 60)>>
        /\ script_runs = [started |-> 0, inserting |-> 0]
        /\ response = [status |-> "pending"]
        /\ previous = [status |-> "pending"]
        /\ local = NoLocals
        /\ writes = 0
        /\ write_budget = WriteBudget
        /\ pc = "idle"

(***************************************************************************)
(* Operations.  A handler is a chain of steps, one per round trip to the   *)
(* database or the registry; between two of them other clients may write.  *)
(* No code of the service writes the measurement tables.                   *)
(***************************************************************************)
\* what no step changes: the measurement tables, and the number of writes
\* of other clients that is explored
Tables == <<station_measurements, weather_measurements, merge_available, write_budget>>

\* the arguments of the call of preprocess_data the request leads to
CallDates ==
    IF request.kind = "preprocess" THEN <<request.start_date, request.end_date>>
    ELSE LatestDates

\* configs = request.custom_configs if request.use_custom_configs else None
CallCustom ==
    IF request.kind = "preprocess" /\ request.use_custom_configs
    THEN request.custom_configs ELSE NoConfig

\* station_id: int = Field(...): a body without station_id is refused
Refused(req) ==
    req.kind = "preprocess" /\ req.caller = "endpoint" /\ IsNull(req.station_id)

\* POST /preprocess with a body PreprocessingRequest refuses: 422, the
\* handler is not entered
RefuseRequest ==
    /\ pc = "idle"
    /\ Refused(request)
    /\ response' = [status |-> "error", http |-> 422,
                    error |-> "RequestValidationError", calls |-> <<>>]
    /\ pc' = "refused"
    /\ UNCHANGED <<Tables, forecasts, script_runs, preprocessing_configs, model_registry, request, previous,
                   local, writes>>

\* POST /generate-forecasts up to the call of the preparer: the exclusion
\* list, then the stations table
GenerateForecast ==
    LET
        \* the rows of the stations table
        StationsTable == {1, 2, 3, 7}
    IN
        /\ pc = "idle"
        /\ request.kind = "forecast"
        /\ IF NotNull(request.station_id) /\ Val(request.station_id) \in ExcludedStations
           THEN /\ response' = NoLoop(400, "ExcludedStation", <<>>)
                /\ pc' = "done"
                /\ UNCHANGED local
           ELSE IF NotNull(request.station_id) /\ Val(request.station_id) \notin StationsTable
           THEN /\ response' = NoLoop(404, "StationNotFound", <<"stations_query">>)
                /\ pc' = "done"
                /\ UNCHANGED local
           ELSE /\ local' = [local EXCEPT
                                !.calls = IF IsNull(request.station_id) THEN <<>>
                                          ELSE <<"stations_query">>]
                /\ pc' = "prepare"
                /\ UNCHANGED response
        /\ UNCHANGED <<Tables, forecasts, script_runs, preprocessing_configs, model_registry, request, previous,
                       writes>>

\* the inputs under which a second call with the same arguments is explored
CallsAgain ==
    /\ request.prediction_horizons = <<15, 30>>
    /\ \A i \in 1..Len(station_measurements) :
          Val(station_measurements[i]["station_id"]) \notin ExcludedStations

\* preprocess_data up to get_station_data: the caller's map, or the rows
\* get_preprocessing_configs reads now.  It is entered by POST /preprocess
\* and prepare_training_data (a caller may call again with the same
\* arguments, the same map included) and by
\* prepare_latest_data_for_prediction.
ReadConfigs ==
    /\ \/ pc = "idle" /\ request.kind \in {"preprocess", "latest"} /\ ~Refused(request)
       \/ pc = "done" /\ request.kind = "preprocess" /\ CallsAgain
       \/ pc = "prepare"
    /\ local' = [local EXCEPT
                    !.run = IF pc = "done" THEN 2 ELSE 1,
                    !.configs = ResolveConfigs(CallCustom, preprocessing_configs),
                    !.calls = (IF pc = "prepare" THEN @ ELSE <<>>)
                              \o (IF UsesCustom(CallCustom) THEN <<>>
                                  ELSE <<"get_preprocessing_configs">>)]
    /\ previous' = IF pc = "done" THEN response ELSE previous
    /\ pc' = "merge_stations"
    /\ UNCHANGED <<Tables, forecasts, script_runs, preprocessing_configs, model_registry, request, response,
                   writes>>

\* the return of preprocess_data to POST /preprocess or prepare_training_data
ReturnPreprocess(result) ==
    /\ response' = result
    /\ request' = [request EXCEPT
                      !.custom_configs =
                          IF request.use_custom_configs
                          THEN CustomConfigsAfter(@, request.prediction_horizons,
                                                  result.calls)
                          ELSE @]
    /\ pc' = IF local.run = 1 THEN "done" ELSE "again"
    /\ UNCHANGED local

\* generate_forecasts_endpoint from the prepared latest data to the loop
StartLoop(latest) ==
    LET
        \* the state the loop carries from horizon to horizon; fed lists the
        \* frames handed to a model (before scaling) with the value predicted
        \* from them, attempted the horizons the loop reached and seen the
        \* registry entry each of them found, for the properties
        LoopStart(X_latest) ==
            [X_current |-> X_latest, previous_prediction |-> NaN, all_forecasts |-> <<>>,
             fed |-> <<>>, attempted |-> <<>>, seen |-> <<>>, X_latest |-> X_latest,
             station_id |-> request.station_id]
    IN
        /\ IF latest.status = "success"
           THEN /\ local' = [local EXCEPT
                                !.loop = LoopStart(latest.X_latest),
                                !.feature_names = latest.feature_names,
                                !.remaining = request.horizons_minutes,
                                !.calls = latest.calls]
                /\ pc' = "loop"
                /\ UNCHANGED response
           ELSE /\ response' = NoLoop(IF latest.status = "error" THEN 500 ELSE 400,
                                      IF latest.status = "error" THEN latest.error
                                      ELSE "NoRecentData",
                                      latest.calls)
                /\ pc' = "done"
                /\ UNCHANGED local
        /\ UNCHANGED request

Fetched(got) ==
    LET
        \* the rest of preprocess_data, and of its caller up to the next round
        \* trip, once get_station_data has returned or raised
        AfterFetch(result) ==
            LET
                \* the return of prepare_latest_data_for_prediction to its caller
                ReturnLatest(latest) ==
                    /\ response' = latest
                    /\ pc' = "done"
                    /\ UNCHANGED <<request, local>>
            IN
                CASE request.kind = "preprocess" -> ReturnPreprocess(result)
                  [] request.kind = "latest" -> ReturnLatest(LatestOf(result))
                  [] request.kind = "forecast" -> StartLoop(LatestOf(result))
        CallHorizons ==
            LET
                \* prediction_horizons=[15] of prepare_latest_data_for_prediction
                LatestHorizons == <<15>>
            IN
                IF request.kind = "preprocess" THEN request.prediction_horizons ELSE LatestHorizons
    IN
        AfterFetch(PreprocessFetched(got, local.calls, request.station_id, CallHorizons,
                                     local.configs))

\* the merge raised: the station-only branch refuses an excluded station,
\* and sends its query otherwise
FallBack ==
    IF StationQuerySkipped(request.station_id)
    THEN Fetched([df |-> Raise(Frame(<<>>, <<>>), "ExcludedStation"),
                  calls |-> <<"merge_station_with_weather">>])
    ELSE /\ pc' = "station_query"
         /\ UNCHANGED <<request, response, local>>

\* merge_station_with_weather: the query on station_measurements
MergeStationsQuery ==
    /\ pc = "merge_stations"
    /\ IF /\ merge_available
          /\ BoundsAccepted(MergeBounds(CallDates[1], CallDates[2]))
          /\ station_measurements # <<>>
       THEN /\ local' = [local EXCEPT !.stations = station_measurements]
            /\ pc' = "merge_weather"
            /\ UNCHANGED <<request, response>>
       ELSE FallBack
    /\ UNCHANGED <<Tables, forecasts, script_runs, preprocessing_configs, model_registry, previous, writes>>

\* merge_station_with_weather: the query on weather_measurements, the merge
\* and, when it succeeds, the steps of the pipeline
MergeWeatherQuery ==
    /\ pc = "merge_weather"
    /\ IF MergedStationData(local.stations, weather_measurements, TRUE,
                            request.station_id).error = ""
       THEN Fetched([df |-> MergedStationData(local.stations, weather_measurements,
                                              TRUE, request.station_id),
                     calls |-> <<"merge_station_with_weather">>])
       ELSE FallBack
    /\ UNCHANGED <<Tables, forecasts, script_runs, preprocessing_configs, model_registry, previous, writes>>

\* the station-only query of get_station_data and the steps of the pipeline
StationQuery ==
    /\ pc = "station_query"
    /\ Fetched([df |-> StationQueryData(station_measurements, request.station_id,
                                        CallDates[1], CallDates[2]),
                calls |-> <<"merge_station_with_weather", "station_measurements_query">>])
    /\ UNCHANGED <<Tables, forecasts, script_runs, preprocessing_configs, model_registry, previous, writes>>

\* the rest of one iteration of the loop of generate_forecasts_endpoint once
\* the registry has answered; after the last horizon the forecasts are
\* saved when there are some and save_to_db is set, and the response follows
FinishHorizon(entry) ==
    LET
        \* the answers the registry has given for the horizon at hand so far
        NoEntry == [ridge |-> NoModel, linear |-> NoModel]
    IN
        /\ local' = [local EXCEPT
                        !.loop = ForecastStep(@, Head(local.remaining),
                                              [horizon \in {Head(local.remaining)} |-> entry],
                                              local.feature_names),
                        !.remaining = Tail(@),
                        !.entry = NoEntry]
        /\ IF Tail(local.remaining) # <<>>
           THEN /\ pc' = "loop"
                /\ UNCHANGED response
           ELSE IF request.save_to_db /\ local'.loop.all_forecasts # <<>>
           THEN /\ pc' = "delete_forecasts"
                /\ UNCHANGED response
           ELSE /\ response' = ForecastResponse(local'.loop, local.calls)
                /\ pc' = "done"

\* the answer of search_registered_models for one family is noted; the
\* loop over the families goes on to `next` unless the model was found
Searched(family, next) ==
    LET answer == EntryAt(model_registry, Head(local.remaining))[family].registered
        entry == [local.entry EXCEPT ![family].registered = answer]
    IN  IF answer = "registered"
        THEN /\ local' = [local EXCEPT !.entry = entry]
             /\ pc' = "versions"
             /\ UNCHANGED response
        ELSE IF next # ""
        THEN /\ local' = [local EXCEPT !.entry = entry]
             /\ pc' = next
             /\ UNCHANGED response
        ELSE FinishHorizon(entry)

\* client.search_registered_models("name='swfm-ridge-unified-{horizon}min'")
SearchRidgeModel ==
    /\ pc = "loop"
    /\ Searched("ridge", "search_linear")
    /\ UNCHANGED <<Tables, forecasts, script_runs, preprocessing_configs, model_registry, request, previous,
                   writes>>

\* client.search_registered_models("name='swfm-linear-unified-{horizon}min'")
SearchLinearModel ==
    /\ pc = "search_linear"
    /\ Searched("linear", "")
    /\ UNCHANGED <<Tables, forecasts, script_runs, preprocessing_configs, model_registry, request, previous,
                   writes>>

\* client.search_model_versions of the model found: its versions now, the
\* latest of which the iteration goes on with; none when the model is gone
SearchModelVersions ==
    /\ pc = "versions"
    /\ LET family == ModelName(local.entry)
           now == EntryAt(model_registry, Head(local.remaining))[family]
           found == IF now.registered = "registered" THEN now
                    ELSE [NoModel EXCEPT !.registered = "registered"]
           entry == [local.entry EXCEPT ![family] = found]
       IN  IF found.versions = 0 THEN FinishHorizon(entry)
           ELSE /\ local' = [local EXCEPT !.entry = entry]
                /\ pc' = "load"
                /\ UNCHANGED response
    /\ UNCHANGED <<Tables, forecasts, script_runs, preprocessing_configs, model_registry, request, previous,
                   writes>>

\* mlflow.sklearn.load_model of the latest version found; it raises when
\* the version is gone or does not load, and the horizon is left
LoadModel ==
    /\ pc = "load"
    /\ LET family == ModelName(local.entry)
           now == EntryAt(model_registry, Head(local.remaining))[family]
           kept == /\ now.registered = "registered"
                   /\ now.versions >= local.entry[family].versions
           entry == [local.entry EXCEPT ![family].loads = @ /\ kept]
       IN  IF entry[family].loads
           THEN /\ local' = [local EXCEPT !.entry = entry]
                /\ pc' = "scaler"
                /\ UNCHANGED response
           ELSE FinishHorizon(entry)
    /\ UNCHANGED <<Tables, forecasts, script_runs, preprocessing_configs, model_registry,
                   request, previous, writes>>

\* client.download_artifacts(run_id, "preprocessing/scaler.pkl") for the run
\* of the version found, whose artifacts no operation changes: the scaler,
\* None when the run holds none; then the rest of the iteration
DownloadScaler ==
    /\ pc = "scaler"
    /\ FinishHorizon(local.entry)
    /\ UNCHANGED <<Tables, forecasts, script_runs, preprocessing_configs, model_registry,
                   request, previous, writes>>

\* the save of the forecasts, first round trip: the delete of the station's
\* forecasts of more than seven days ago.  For a request for all stations
\* the filter is .eq("station_id", None), which the database does not read
\* as an integer: the delete raises, the insert is skipped and the response
\* follows, as the save never fails the request
DeleteOldForecasts ==
    LET cutoff_date == forecast_date - 7 * 24 * 60
    IN
        /\ pc = "delete_forecasts"
        /\ IF IsNull(request.station_id)
           THEN /\ response' = ForecastResponse(local.loop, local.calls)
                /\ pc' = "done"
                /\ UNCHANGED forecasts
           ELSE /\ forecasts' =
                      SelectSeq(forecasts,
                                LAMBDA row : ~(/\ row.station_id = request.station_id
                                               /\ row.forecast_date < cutoff_date))
                /\ pc' = "insert_forecasts"
                /\ UNCHANGED response
        /\ UNCHANGED <<Tables, script_runs, preprocessing_configs, model_registry, request,
                       previous, local, writes>>

\* the save, second round trip: the insert of all_forecasts; the response
\* follows
InsertForecasts ==
    /\ pc = "insert_forecasts"
    /\ forecasts' = forecasts \o local.loop.all_forecasts
    /\ response' = ForecastResponse(local.loop, local.calls)
    /\ pc' = "done"
    /\ UNCHANGED <<Tables, script_runs, preprocessing_configs, model_registry, request,
                   previous, local, writes>>

\* PreprocessingService.apply_<step>(df, config) on the fetched frame
Transform ==
    LET
        \* df.drop(columns=...): the frame without the given columns
        DropColumns(df, cols) ==
            TakeColumns(df, SelectSeq(df.columns, LAMBDA col : col \notin cols))
    IN
        /\ pc = "idle"
        /\ request.kind = "transform"
        /\ response' = ApplyTransform(
                            DropColumns(GetStationData(station_measurements,
                                                       weather_measurements,
                                                       merge_available, NaN,
                                                       NoDate, NoDate).df,
                                        request.without),
                            request.step,
                            GetPreprocessingConfigs(preprocessing_configs))
        /\ pc' = "done"
        /\ UNCHANGED <<Tables, forecasts, script_runs, preprocessing_configs, model_registry, request, previous,
                       local, writes>>

\* PUT /configs/{method_id} of another client: the enabled flag or the
\* config of the rows of the method (404 without such a row)
UpdatePreprocessingConfig ==
    LET
        \* PUT /configs/{method_id} bodies of other clients
        ConfigUpdates ==
            {[method_id |-> "lag_features", update |-> [config |-> [lag_periods |-> <<2>>]]],
             [method_id |-> "rate_of_change", update |-> [enabled |-> FALSE]],
             [method_id |-> "data_range", update |-> [enabled |-> FALSE]]}
    IN
        /\ writes < write_budget.writes
        /\ \E u \in ConfigUpdates :
              /\ \E k \in 1..Len(preprocessing_configs) :
                    preprocessing_configs[k].method_id = u.method_id
              /\ preprocessing_configs' =
                    [k \in 1..Len(preprocessing_configs) |->
                        IF preprocessing_configs[k].method_id = u.method_id
                        THEN [preprocessing_configs[k] EXCEPT
                                !.enabled = IF "enabled" \in DOMAIN u.update
                                            THEN u.update.enabled ELSE @,
                                !.config = IF "config" \in DOMAIN u.update
                                           THEN u.update.config ELSE @]
                        ELSE preprocessing_configs[k]]
        /\ writes' = writes + 1
        /\ UNCHANGED <<Tables, forecasts, script_runs, model_registry, request, response, previous, local, pc>>

\* init_data_range_config.py, main, first round trip: the select of the
\* rows of data_range; the run ends here when there is one
SelectDataRangeConfig ==
    /\ script_runs.started < write_budget.script_runs
    /\ script_runs' =
          [started |-> script_runs.started + 1,
           inserting |-> IF \E k \in 1..Len(preprocessing_configs) :
                               preprocessing_configs[k].method_id = "data_range"
                         THEN script_runs.inserting
                         ELSE script_runs.inserting + 1]
    /\ UNCHANGED <<Tables, preprocessing_configs, forecasts, model_registry, request,
                   response, previous, local, writes, pc>>

\* main, second round trip, of a run whose select found no row: the insert
\* of the row.  When another run has inserted one since, the insert adds a
\* second row, or it is refused where method_id is a key of the table and
\* the run ends with the error: the repository holds no schema to tell
InitDataRangeConfig ==
    LET row == [method_id |-> "data_range", enabled |-> TRUE,
                config |-> [description |-> "Define the date range for training data",
                            start_date |-> "2025-11-01", end_date |-> "2025-12-01"]]
    IN
        /\ script_runs.inserting > 0
        /\ script_runs' = [script_runs EXCEPT !.inserting = @ - 1]
        /\ \/ preprocessing_configs' = Append(preprocessing_configs, row)
           \/ /\ \E k \in 1..Len(preprocessing_configs) :
                    preprocessing_configs[k].method_id = "data_range"
              /\ UNCHANGED preprocessing_configs
        /\ UNCHANGED <<Tables, forecasts, model_registry, request, response, previous,
                       local, writes, pc>>

\* DELETE /forecasts/cleanup of another client while a forecast request is
\* served (hours_old = 2): the forecasts made more than two hours ago go
CleanupOldForecasts ==
    LET cutoff_date == forecast_date - 2 * 60
    IN
        /\ writes < write_budget.writes
        /\ request.kind = "forecast"
        /\ forecasts' = SelectSeq(forecasts, LAMBDA row : row.forecast_date >= cutoff_date)
        /\ writes' = writes + 1
        /\ UNCHANGED <<Tables, preprocessing_configs, script_runs, model_registry, request,
                       response, previous, local, pc>>

\* the registry with one family of one horizon replaced
WithEntry(registry, horizon, family, entry) ==
    [h \in (DOMAIN registry) \cup {horizon} |->
        IF h = horizon THEN [EntryAt(registry, h) EXCEPT ![family] = entry]
        ELSE registry[h]]

\* the unified models a forecast request looks up
LookedUp ==
    IF request.kind = "forecast"
    THEN {request.horizons_minutes[k] : k \in 1..Len(request.horizons_minutes)}
    ELSE {}

\* mlflow.register_model by a training run of another client
\* (swfm-{model_type}-unified-{horizon}min): a new version of the model
RegisterModel ==
    LET
        \* the models training runs of other clients register
        TrainedModels == {LagModel}
    IN
        /\ writes < write_budget.writes
        /\ \E horizon \in LookedUp, family \in {"ridge", "linear"}, model \in TrainedModels :
              /\ EntryAt(model_registry, horizon)[family].registered # "raises"
              /\ model_registry' =
                    WithEntry(model_registry, horizon, family,
                              [registered |-> "registered",
                               versions |-> EntryAt(model_registry, horizon)[family].versions + 1,
                               loads |-> TRUE, model |-> model])
        /\ writes' = writes + 1
        /\ UNCHANGED <<Tables, forecasts, script_runs, preprocessing_configs, request, response, previous, local, pc>>

\* delete_all_models.py, the versions of one model: delete_model_version
DeleteModelVersions ==
    /\ writes < write_budget.writes
    /\ \E horizon \in LookedUp, family \in {"ridge", "linear"} :
          /\ EntryAt(model_registry, horizon)[family].registered = "registered"
          /\ EntryAt(model_registry, horizon)[family].versions > 0
          /\ model_registry' =
                WithEntry(model_registry, horizon, family,
                          [EntryAt(model_registry, horizon)[family] EXCEPT !.versions = 0])
    /\ writes' = writes + 1
    /\ UNCHANGED <<Tables, forecasts, script_runs, preprocessing_configs, request, response, previous, local, pc>>

\* DELETE /models/{model_name} and delete_all_models.py: delete_registered_model
DeleteModel ==
    /\ writes < write_budget.writes
    /\ \E horizon \in LookedUp, family \in {"ridge", "linear"} :
          /\ EntryAt(model_registry, horizon)[family].registered = "registered"
          /\ model_registry' = WithEntry(model_registry, horizon, family, NoModel)
    /\ writes' = writes + 1
    /\ UNCHANGED <<Tables, forecasts, script_runs, preprocessing_configs, request, response, previous, local, pc>>

Next ==
    \/ RefuseRequest
    \/ GenerateForecast
    \/ ReadConfigs
    \/ MergeStationsQuery
    \/ MergeWeatherQuery
    \/ StationQuery
    \/ SearchRidgeModel
    \/ SearchLinearModel
    \/ SearchModelVersions
    \/ LoadModel
    \/ DownloadScaler
    \/ DeleteOldForecasts
    \/ InsertForecasts
    \/ Transform
    \/ UpdatePreprocessingConfig
    \/ SelectDataRangeConfig
    \/ InitDataRangeConfig
    \/ CleanupOldForecasts
    \/ RegisterModel
    \/ DeleteModelVersions
    \/ DeleteModel

Spec == Init /\ [][Next]_vars

(***************************************************************************)
(* Properties                                                              *)
(***************************************************************************)
\* a preprocess_data call has returned its result dictionary
Preprocessed ==
    pc = "done" /\ request.kind = "preprocess" /\ response.status = "success"

\* the step ran in the call that returned
StepRan(step) == InSeq(step, response.calls)

\* positions, in frame order, of the rows of the station of row i
Group(df, i) ==
    SelectSeq(Indices(df.rows),
              LAMBDA k : df.rows[k]["station_id"] = df.rows[i]["station_id"])

\* rank of row i among the rows of its station
Rank(df, i) == CHOOSE j \in 1..Len(Group(df, i)) : Group(df, i)[j] = i

\* the cell of a column that may be absent from the frame
Cell(df, i, col) == IF HasColumn(df, col) THEN df.rows[i][col] ELSE NaN

\* the water_level of the row `offset` rows after row i within its station,
\* null when the station has no such row
StationLevel(df, i, offset) ==
    LET g == Group(df, i)
        j == Rank(df, i) + offset
    IN  IF j >= 1 /\ j <= Len(g) THEN df.rows[g[j]]["water_level"] ELSE NaN

\* the modal interval detected for the station of row i
StationInterval(df, i) ==
    LET g == Group(df, i)
    IN  ModeInterval([j \in 1..Len(g) |-> Val(df.rows[g[j]]["measured_at"])])

\* Python's round(num / den): to the nearest integer, a tie to the even one
RoundHalfEven(num, den) ==
    LET q == num \div den
        r == num % den
    IN  IF 2 * r < den THEN q
        ELSE IF 2 * r > den THEN q + 1
        ELSE IF q % 2 = 0 THEN q ELSE q + 1

\* C1: for every requested horizon h and every row t, target_{h}min at row t
\* is the water_level of row t + (h // 15) of the same station, and null when
\* the station has no such row, in single-station and multi-station frames.
C1_TargetIsStationShift ==
    (Preprocessed /\ StepRan("target_creation")) =>
        LET df == response.before_cleaning
            horizons == request.prediction_horizons
        IN  \A i \in 1..NRows(df), n \in 1..Len(horizons) :
                df.rows[i][TargetColumn(horizons[n])]
                    = StationLevel(df, i, horizons[n] \div 15)

\* C1 witness: in a frame of several stations a target is taken from a row
\* that is not the frame's next row, and another target is null.
C1_Witness ==
    /\ Preprocessed /\ StepRan("target_creation")
    /\ LET df == response.before_cleaning
           horizons == request.prediction_horizons
       IN  /\ NUnique(Column(df, "station_id")) > 1
           /\ \E i \in 1..NRows(df), n \in 1..Len(horizons) :
                 LET k == horizons[n] \div 15
                     g == Group(df, i)
                     j == Rank(df, i)
                 IN  /\ k >= 1 /\ j + k <= Len(g) /\ g[j + k] # i + k
                     /\ NotNull(df.rows[i][TargetColumn(horizons[n])])
           /\ \E i \in 1..NRows(df), n \in 1..Len(horizons) :
                 IsNull(df.rows[i][TargetColumn(horizons[n])])

\* C2 (as claimed): water_level_lag_{l}h at row t of a station is that
\* station's water_level at row t - round(l * periods_per_hour), with
\* periods_per_hour = 60 / the station's own modal interval, and null for the
\* first round(l * periods_per_hour) rows of the station.
C2_LagIsRoundedShift ==
    (Preprocessed /\ StepRan("lag_features")) =>
        LET df == response.before_cleaning
            lag_periods == local.configs["lag_features"]["lag_periods"]
        IN  \A i \in 1..NRows(df), n \in 1..Len(lag_periods) :
                Cell(df, i, LagColumn(lag_periods[n]))
                    = StationLevel(df, i,
                        0 - RoundHalfEven(lag_periods[n] * 60, StationInterval(df, i)))

\* C3 (as claimed): a non-null target_{h}min is the water_level the same
\* station reported h minutes, rounded to the station's detected sampling
\* grid, after the row's measured_at.
C3_TargetIsLevelAfterHorizon ==
    (Preprocessed /\ StepRan("target_creation")) =>
        LET df == response.before_cleaning
            horizons == request.prediction_horizons
        IN  \A i \in 1..NRows(df), n \in 1..Len(horizons) :
                LET target == df.rows[i][TargetColumn(horizons[n])]
                    grid == StationInterval(df, i)
                    ahead == grid * RoundHalfEven(horizons[n], grid)
                    g == Group(df, i)
                IN  NotNull(target) =>
                        \E j \in 1..Len(g) :
                            /\ Val(df.rows[g[j]]["measured_at"])
                                  = Val(df.rows[i]["measured_at"]) + ahead
                            /\ df.rows[g[j]]["water_level"] = target

\* the row of the frame with the given id
RowWithId(df, id) == CHOOSE i \in 1..NRows(df) : df.rows[i]["id"] = id

\* C4 (as claimed): in the FeatureTable of a run of all steps, a row whose
\* station has no row h // 15 rows later has a null target_{h}min.
C4_MissingTargetStaysNull ==
    (Preprocessed /\ StepRan("target_creation") /\ StepRan("data_cleaning")) =>
        LET before == response.before_cleaning
            table == response.processed_data
            horizons == request.prediction_horizons
        IN  \A r \in 1..NRows(table), n \in 1..Len(horizons) :
                LET i == RowWithId(before, table.rows[r]["id"])
                IN  Rank(before, i) + (horizons[n] \div 15) > Len(Group(before, i))
                        => IsNull(table.rows[r][TargetColumn(horizons[n])])

\* C5 (as claimed): for every horizon h > 0 a value written to target_{h}min
\* comes from a strictly later row of the same station.
C5_TargetFromLaterRow ==
    (Preprocessed /\ StepRan("target_creation")) =>
        LET df == response.before_cleaning
            horizons == request.prediction_horizons
        IN  \A i \in 1..NRows(df), n \in 1..Len(horizons) :
                LET target == df.rows[i][TargetColumn(horizons[n])]
                    g == Group(df, i)
                IN  (horizons[n] > 0 /\ NotNull(target)) =>
                        \E j \in (Rank(df, i) + 1)..Len(g) :
                            df.rows[g[j]]["water_level"] = target

\* the measurements with the rows of every station but one changed: their
\* levels raised unevenly or nulled, their timestamps delayed or stretched
Disturbances == {"raise", "null", "delay", "stretch"}

Disturbed(rows, station, how) ==
    [i \in 1..Len(rows) |->
        IF rows[i]["station_id"] = Num(station) THEN rows[i]
        ELSE CASE how = "raise" ->
                    [rows[i] EXCEPT !["water_level"] =
                        IF IsNull(@) THEN @ ELSE Num(Val(@) + Unit * (1 + (i % 3)))]
               [] how = "null" -> [rows[i] EXCEPT !["water_level"] = NaN]
               [] how = "delay" -> [rows[i] EXCEPT !["measured_at"] = Num(Val(@) + 5)]
               [] how = "stretch" -> [rows[i] EXCEPT !["measured_at"] = Num(2 * Val(@))]]

\* the lag, rolling-statistic, rate-of-change and target columns of two frames
InterStationCols(a, b) ==
    {col \in {a.columns[k] : k \in 1..Len(a.columns)}
                \cup {b.columns[k] : k \in 1..Len(b.columns)} :
        \/ StartsWith(col, "water_level_lag_")
        \/ StartsWith(col, "water_level_rolling_")
        \/ StartsWith(col, "water_level_change_")
        \/ StartsWith(col, "target_")}

\* the values of the given columns at the rows of one station, by row id
StationValues(df, station, cols) ==
    {<<df.rows[i]["id"], col, Cell(df, i, col)>> :
        i \in {k \in 1..NRows(df) : df.rows[k]["station_id"] = Num(station)},
        col \in cols}

\* the run of the same request, with the configs the call read, over other
\* measurements
RunOver(rows) ==
    PreprocessData(rows, weather_measurements, merge_available,
                   ConfigTable(local.configs), request.station_id, CallDates,
                   request.prediction_horizons, CallCustom)

ActiveStations == {2, 3}

\* C6: in a multi-station frame the lag, rolling-statistic, rate-of-change and
\* target values of the rows of a station are the same in a second run whose
\* input differs only in the water levels or the timestamps of the rows of
\* the other stations and that completes as well.
C6_NoCrossStationLeakage ==
    (Preprocessed /\ MultiStation(response.before_cleaning)) =>
        \A station \in ActiveStations, how \in Disturbances :
            LET one == response.before_cleaning
                other == RunOver(Disturbed(station_measurements, station, how))
                two == other.before_cleaning
                cols == InterStationCols(one, two)
            IN  other.status = "success" =>
                    StationValues(one, station, cols) = StationValues(two, station, cols)

\* C6 witness: the second run changed the values of another station while
\* the station has a lag, a rolling mean, a rate of change and a target.
C6_Witness ==
    /\ Preprocessed /\ MultiStation(response.before_cleaning)
    /\ \E station \in ActiveStations, how \in Disturbances :
          LET one == response.before_cleaning
              two == RunOver(Disturbed(station_measurements, station, how)).before_cleaning
              cols == InterStationCols(one, two)
              mine == StationValues(one, station, cols)
          IN  /\ \E rival \in ActiveStations \ {station} :
                    StationValues(one, rival, cols) # StationValues(two, rival, cols)
              /\ \A prefix \in {"water_level_lag_", "water_level_rolling_mean",
                                "water_level_change_", "target_"} :
                    \E v \in mine : StartsWith(v[2], prefix) /\ NotNull(v[3])

\* C7: no row of an excluded station (1, 7) is in the FeatureTable of
\* preprocess_data or in the LatestFeatureVector of
\* prepare_latest_data_for_prediction, whatever the measurements and the scope,
\* with and without the weather merge.
C7_NoExcludedStationInOutput ==
    (pc = "done" /\ response.status = "success"
        /\ request.kind \in {"preprocess", "latest"}) =>
        LET out == IF request.kind = "preprocess" THEN response.processed_data
                   ELSE response.X_latest
        IN  \A i \in 1..NRows(out) : Val(out.rows[i]["station_id"]) \notin {1, 7}

\* C7 witness: the measurements hold rows of stations 1 and 7, the scope is
\* every station, the weather merge delivered the frame and a FeatureTable
\* with rows was returned.
C7_Witness ==
    /\ pc = "done" /\ response.status = "success" /\ request.kind = "preprocess"
    /\ IsNull(request.station_id)
    /\ ~InSeq("station_measurements_query", response.calls)
    /\ \E i \in 1..Len(station_measurements) :
          Val(station_measurements[i]["station_id"]) \in {1, 7}
    /\ NRows(response.processed_data) > 0

\* C8 (as claimed): a request for a station on the exclusion list is rejected
\* before any computation: no weather merge and no feature transform runs for
\* it, and it yields no FeatureTable or LatestFeatureVector.
C8_ExcludedRequestRejectedFirst ==
    (pc = "done" /\ NotNull(request.station_id) /\ Val(request.station_id) \in {1, 7}) =>
        /\ response.status = "error"
        /\ response.error = "ExcludedStation"
        /\ ~InSeq("merge_station_with_weather", response.calls)
        /\ \A n \in 1..Len(PipelineSteps) : ~InSeq(PipelineSteps[n], response.calls)

\* C9 (as claimed): clean_data with remove_rows_with_missing_lags on removes
\* a row if and only if the row has a null in some column
\* water_level_lag_{l}h.
C9_RowRemovedIffNullLag ==
    (Preprocessed /\ StepRan("data_cleaning")) =>
        LET before == response.before_cleaning
            after == response.processed_data
        IN  \A i \in 1..NRows(before) :
                (\A r \in 1..NRows(after) : after.rows[r]["id"] # before.rows[i]["id"])
                    <=> \E n \in 1..Len(before.columns) :
                            /\ StartsWith(before.columns[n], "water_level_lag_")
                            /\ IsNull(before.rows[i][before.columns[n]])

\* the non-null water levels among the last `window` rows of the station of
\* row i, up to row i
WindowCount(df, i, window) ==
    LET g == Group(df, i)
        j == Rank(df, i)
    IN  Cardinality({k \in 1..Len(g) :
                        /\ k <= j /\ k > j - window
                        /\ NotNull(df.rows[g[k]]["water_level"])})

\* C10 (as claimed): with min_periods = 1 the rolling mean and the rolling
\* std of every configured window are non-null at every row with a non-null
\* water_level, the first row of a series included.
C10_RollingNeverNull ==
    (Preprocessed /\ StepRan("rolling_statistics")) =>
        LET df == response.before_cleaning
            config == local.configs["rolling_statistics"]
        IN  \A i \in 1..NRows(df), n \in 1..Len(config["windows"]) :
                (config["min_periods"] = 1 /\ NotNull(df.rows[i]["water_level"])) =>
                    /\ NotNull(Cell(df, i, RollingMeanColumn(config["windows"][n])))
                    /\ NotNull(Cell(df, i, RollingStdColumn(config["windows"][n])))

\* C10 (amended): with min_periods = 1, at the rows of a station that has at
\* least two rows the rolling mean is non-null wherever water_level is
\* non-null, and the rolling std is non-null exactly where the window of
\* int(w * periods_per_hour) rows of the station ending at the row holds at
\* least two non-null water levels, so it is null at the first row; a station
\* with a single row has no rolling value.
C10_RollingNullOnlyWithoutTwo ==
    (Preprocessed /\ StepRan("rolling_statistics")) =>
        LET df == response.before_cleaning
            config == local.configs["rolling_statistics"]
        IN  \A i \in 1..NRows(df), n \in 1..Len(config["windows"]) :
                LET w == config["windows"][n]
                    mean == Cell(df, i, RollingMeanColumn(w))
                    std == Cell(df, i, RollingStdColumn(w))
                    periods == (w * 60) \div StationInterval(df, i)
                IN  config["min_periods"] = 1 =>
                        IF Len(Group(df, i)) >= 2
                        THEN /\ NotNull(df.rows[i]["water_level"]) => NotNull(mean)
                             /\ NotNull(std) <=> WindowCount(df, i, periods) >= 2
                             /\ Rank(df, i) = 1 => IsNull(std)
                        ELSE IsNull(mean) /\ IsNull(std)

\* C10 witness: a first row with a rolling mean and no rolling std, and a
\* later row of the same station with both.
C10_Witness ==
    /\ Preprocessed /\ StepRan("rolling_statistics")
    /\ local.configs["rolling_statistics"]["min_periods"] = 1
    /\ LET df == response.before_cleaning
           w == local.configs["rolling_statistics"]["windows"][1]
       IN  \E i, k \in 1..NRows(df) :
              /\ Group(df, i) = Group(df, k)
              /\ Rank(df, i) = 1 /\ Rank(df, k) > 1
              /\ NotNull(df.rows[i]["water_level"])
              /\ NotNull(Cell(df, i, RollingMeanColumn(w)))
              /\ IsNull(Cell(df, i, RollingStdColumn(w)))
              /\ NotNull(Cell(df, k, RollingStdColumn(w)))

\* generate_forecasts_endpoint has answered after running its loop
Forecasted ==
    pc = "done" /\ request.kind = "forecast" /\ InSeq("forecast_loop", response.calls)

\* the horizon of a forecast record
HorizonOf(forecast) == forecast.target_date - forecast.forecast_date

\* the position of the k-th forecast's horizon in the request
RequestIndex(k) ==
    CHOOSE n \in 1..Len(request.horizons_minutes) :
        request.horizons_minutes[n] = HorizonOf(response.forecasts[k])

\* the shortest configured lag column
ShortestLagColumn ==
    LET lags == local.configs["lag_features"]["lag_periods"]
    IN  LagColumn(CHOOSE l \in {lags[k] : k \in 1..Len(lags)} :
                    \A k \in 1..Len(lags) : l <= lags[k])

\* C11 (as claimed): when two consecutive requested horizons both produce a
\* forecast, the vector handed to the later horizon's model carries the
\* earlier prediction as water_level and as the shortest configured lag,
\* whatever features the two models expect.
C11_PredictionFedForward ==
    Forecasted =>
        \A k \in 1..(Len(response.fed) - 1) :
            RequestIndex(k + 1) = RequestIndex(k) + 1 =>
                \A col \in {"water_level", ShortestLagColumn} :
                    HasColumn(response.fed[k + 1].X, col) =>
                        response.fed[k + 1].X.rows[1][col]
                            = Num(response.fed[k].predicted_value)

\* the registry entry the loop found for a requested horizon
EntryOf(horizon) ==
    response.seen[CHOOSE n \in 1..Len(request.horizons_minutes) :
                    request.horizons_minutes[n] = horizon]

\* the family the preference list reaches first with a model that has a
\* version, loads and takes a frame of the width it is given
Usable(m) == m.registered = "registered" /\ m.versions > 0 /\ m.loads /\ m.model.declared

\* C12: the loop attempts every requested horizon; a horizon without a
\* resolvable model is absent from the output and the horizons after it are
\* still attempted; the run succeeds with the forecasts of the horizons that
\* succeeded and fails if and only if none did.
C12_EveryHorizonAttempted ==
    Forecasted =>
        LET horizons == request.horizons_minutes
            done == {HorizonOf(response.forecasts[k]) : k \in 1..Len(response.forecasts)}
        IN  /\ Len(response.attempted) = Len(horizons)
            /\ \A n \in 1..Len(horizons) : InSeq(horizons[n], response.attempted)
            /\ done \subseteq {horizons[n] : n \in 1..Len(horizons)}
            /\ \A n \in 1..Len(horizons) :
                  /\ (\A f \in {"ridge", "linear"} :
                        EntryOf(horizons[n])[f].registered # "registered")
                        => horizons[n] \notin done
                  /\ Usable(EntryOf(horizons[n])["ridge"]) => horizons[n] \in done
            /\ response.forecasts_generated = Cardinality(done)
            /\ (response.status = "error") <=> (done = {})
            /\ (response.status = "success") <=> (response.http = 200)

\* C12 witness: a horizon was skipped and a later one produced a forecast
C12_Witness ==
    /\ Forecasted /\ response.status = "success"
    /\ \E n \in 1..Len(request.horizons_minutes) :
          /\ \A k \in 1..Len(response.forecasts) :
                HorizonOf(response.forecasts[k]) # request.horizons_minutes[n]
          /\ \E k \in 1..Len(response.forecasts) : RequestIndex(k) > n

\* C13: a model that declares its feature names is handed a frame whose
\* columns are exactly those names, in the model's order.
C13_ModelGetsExpectedColumns ==
    Forecasted =>
        \A k \in 1..Len(response.fed) :
            LET fed == response.fed[k]
                model == EntryOf(fed.horizon)[fed.family].model
            IN  model.declared =>
                    /\ fed.X.columns = model.feature_names_in_
                    /\ DOMAIN fed.X.rows[1]
                          = {model.feature_names_in_[n] :
                                n \in 1..Len(model.feature_names_in_)}

\* C13 witness: a model was handed a column the latest vector lacked, after
\* columns it does not expect were dropped, and its columns are not in the
\* order of the latest vector.
C13_Witness ==
    /\ Forecasted
    /\ \E k, l \in 1..Len(response.fed) :
          /\ HasColumn(response.fed[k].X, "flow_rate")
          /\ response.fed[l].X.columns = <<"water_level_lag_1h", "hour">>

\* C20 (as claimed): the prediction steps are taken in ascending order of
\* horizon minutes, whatever order the request lists the horizons in.
C20_StepsInAscendingOrder ==
    Forecasted =>
        /\ Len(response.attempted) = Len(request.horizons_minutes)
        /\ \A k, l \in 1..Len(response.attempted) :
              k < l => response.attempted[k] < response.attempted[l]

\* prepare_latest_data_for_prediction has returned a feature vector
LatestPrepared ==
    pc = "done" /\ request.kind = "latest" /\ response.status = "success"

\* C14 (as claimed): every feature that is null in the latest row is filled
\* with the mean of its column over the window, never with a constant such
\* as 0, a column without any value included.
C14_NullFilledWithColumnMean ==
    LatestPrepared =>
        \A k \in 1..Len(response.feature_names) :
            LET col == response.feature_names[k]
            IN  IsNull(response.df.rows[NRows(response.df)][col]) =>
                    response.X_latest.rows[1][col]
                        = MeanCell(Column(response.df, col), col)

\* the measurement rows the scope of the request covers: those of the
\* requested station, or of every station that is not excluded
ScopeRows ==
    SelectSeq(station_measurements,
              LAMBDA row : /\ Val(row.station_id) \notin {1, 7}
                           /\ IsNull(request.station_id) \/ row.station_id = request.station_id)

\* C15 (as claimed): the preparer returns the triple of None without raising
\* when the scope has no data, and otherwise one row, the most recent one.
C15_NoneWithoutRaising ==
    (pc = "done" /\ request.kind = "latest") =>
        /\ ScopeRows = <<>> => response.status = "none"
        /\ response.status = "success" =>
              /\ NRows(response.X_latest) = 1
              /\ \A i \in 1..Len(ScopeRows) :
                    Val(ScopeRows[i].measured_at)
                        <= Val(response.df.rows[NRows(response.df)].measured_at)

\* C16 (as claimed): when the scope of the request has no measurement rows (a
\* station without data, or every station while only excluded stations have
\* data) preprocess_data signals that there is no data and never returns a
\* successful result with an empty table.
C16_NoRowsIsAnError ==
    (pc = "done" /\ request.kind = "preprocess" /\ ScopeRows = <<>>
        /\ (IsNull(request.station_id) \/ Val(request.station_id) \notin {1, 7})) =>
        /\ response.status = "error"
        /\ response.error = "NoDataFound"

\* the deltas between consecutive timestamps of the station of row i
StationDeltas(df, i) ==
    LET g == Group(df, i)
    IN  [k \in 1..(Len(g) - 1) |->
            Val(df.rows[g[k + 1]]["measured_at"]) - Val(df.rows[g[k]]["measured_at"])]

\* d occurs among the deltas more often than every other delta
MostFrequent(d, deltas) ==
    \A k \in 1..Len(deltas) :
        deltas[k] # d =>
            Cardinality({n \in 1..Len(deltas) : deltas[n] = d})
                > Cardinality({n \in 1..Len(deltas) : deltas[n] = deltas[k]})

\* C17: the interval the lag step detects for a station is the most frequent
\* delta between its consecutive timestamps, whatever gaps a minority of the
\* deltas show: each lag column holds the level (lag * 60) div d rows back
\* when d is the most frequent delta.
C17_IntervalIsMostFrequentDelta ==
    (Preprocessed /\ StepRan("lag_features")) =>
        LET df == response.before_cleaning
            lag_periods == local.configs["lag_features"]["lag_periods"]
        IN  \A i \in 1..NRows(df), d \in Cadences :
                (Len(StationDeltas(df, i)) > 0 /\ MostFrequent(d, StationDeltas(df, i))
                    /\ \E k \in 1..Len(StationDeltas(df, i)) : StationDeltas(df, i)[k] = d) =>
                    \A n \in 1..Len(lag_periods) :
                        Cell(df, i, LagColumn(lag_periods[n]))
                            = StationLevel(df, i, 0 - ((lag_periods[n] * 60) \div d))

\* C17 witness: a station sampled every 15 minutes with one gap of 45
\* minutes, and a row of it whose one-hour lag is the level four rows back
C17_Witness ==
    /\ Preprocessed /\ StepRan("lag_features")
    /\ \E i \in 1..NRows(response.before_cleaning) :
          LET df == response.before_cleaning
              deltas == StationDeltas(df, i)
          IN  /\ \E k \in 1..Len(deltas) : deltas[k] = 45
              /\ MostFrequent(15, deltas)
              /\ HasColumn(df, "water_level_lag_1h")
              /\ NotNull(df.rows[i]["water_level_lag_1h"])
              /\ df.rows[i]["water_level_lag_1h"] = StationLevel(df, i, 0 - 4)

\* the rows of the frame with a null in some column water_level_lag_{l}h
NullLagRows(df) ==
    {i \in 1..NRows(df) :
        \E n \in 1..Len(df.columns) :
            /\ StartsWith(df.columns[n], "water_level_lag_")
            /\ IsNull(df.rows[i][df.columns[n]])}

\* C18 (as claimed): for one active station, records_processed is the number
\* of input rows of the station minus the rows the lag-based cleaning drops;
\* no other step changes the number of rows, final_records equals
\* records_processed and records_removed is initial_records - final_records.
C18_RecordsProcessedCount ==
    (Preprocessed /\ NotNull(request.station_id) /\ StepRan("data_cleaning")) =>
        /\ response.initial_records = Len(ScopeRows)
        /\ NRows(response.before_cleaning) = Len(ScopeRows)
        /\ response.records_processed
              = Len(ScopeRows) - Cardinality(NullLagRows(response.before_cleaning))
        /\ response.final_records = response.records_processed
        /\ response.records_removed
              = response.initial_records - response.final_records

\* the two runs were given the same configuration: the caller's own map, or
\* the same answer of the configuration source
SameConfigs == UsesCustom(CallCustom) \/ response.configs = previous.configs

\* C19: a second run of preprocess_data over the same measurements, with the
\* same configuration map and the same horizons, returns the table of the
\* first run: the same columns, the same rows, the same values.
C19_SecondRunSameTable ==
    (pc = "again" /\ request.kind = "preprocess" /\ SameConfigs) =>
        /\ response.status = previous.status
        /\ response.processed_data = previous.processed_data
        /\ response.records_processed = previous.records_processed

\* C19 witness: the second run used the caller's map, which the first run
\* had written to, and returned a table with rows and targets
C19_Witness ==
    /\ pc = "again" /\ request.kind = "preprocess"
    /\ response.status = "success"
    /\ DOMAIN request.custom_configs # {}
    /\ request.custom_configs["target_creation"]["prediction_horizons"] = <<15, 30>>
    /\ NRows(response.processed_data) > 0
    /\ HasColumn(response.processed_data, "target_30min")

\* the position of a name in a list that holds it
IndexOf(name, names) == CHOOSE k \in 1..Len(names) : names[k] = name

\* C21 (as claimed): a feature the model expects and the current vector lacks
\* is given the training mean the model's scaler stores for that same
\* feature, at the first horizon and at every later one.
C21_MissingFeatureGetsItsScalerMean ==
    Forecasted =>
        \A k \in 1..Len(response.fed) :
            LET fed == response.fed[k]
                model == EntryOf(fed.horizon)[fed.family].model
            IN  model.scaler.present =>
                    \A n \in 1..Len(fed.missing_features) :
                        fed.X.rows[1][fed.missing_features[n]]
                            = Num(model.scaler.mean_[IndexOf(fed.missing_features[n],
                                                            model.feature_names_in_)])

\* a call of preprocess_data or of the latest-data preparer has ended
PipelineEnded ==
    pc \in {"done", "again"} /\ request.kind \in {"preprocess", "latest"}

\* the order the steps are to run in
StepOrder ==
    <<"time_features", "lag_features", "rolling_statistics", "rate_of_change",
      "rainfall_features", "weather_interactions", "station_statistics",
      "target_creation", "data_cleaning">>

IsStep(call) == InSeq(call, StepOrder)

\* C22: whichever configs are supplied, the steps that run do so in the order
\* time, lag, rolling, rate of change, rainfall, weather interactions, station
\* statistics, targets, cleaning; the configuration read, the weather merge
\* and the station exclusion come before the first of them.
C22_FixedStepOrder ==
    PipelineEnded =>
        /\ \A a, b \in 1..Len(response.calls) :
              /\ (a < b /\ IsStep(response.calls[a]) /\ IsStep(response.calls[b]))
                    => IndexOf(response.calls[a], StepOrder)
                          < IndexOf(response.calls[b], StepOrder)
              /\ (IsStep(response.calls[a]) /\ ~IsStep(response.calls[b])) => b < a
        /\ (request.kind = "preprocess" /\ response.status = "success") =>
              \A i \in 1..NRows(response.before_cleaning) :
                  Val(response.before_cleaning.rows[i]["station_id"]) \notin {1, 7}

\* C22 witness: a run over a caller's map without the rainfall step, on
\* measurements that hold excluded stations, ran the target step and the
\* cleaning after the merge
C22_Witness ==
    /\ PipelineEnded /\ request.kind = "preprocess" /\ response.status = "success"
    /\ DOMAIN request.custom_configs # {}
    /\ InSeq("merge_station_with_weather", response.calls)
    /\ StepRan("target_creation") /\ StepRan("data_cleaning")
    /\ ~StepRan("rainfall_features")
    /\ NRows(response.before_cleaning) > 0
    /\ \E i \in 1..Len(station_measurements) :
          Val(station_measurements[i]["station_id"]) \in {1, 7}

\* the configuration map the run used
ConfigsUsed == response.configs

\* C23 (as claimed): a step is skipped whenever its key is absent from the
\* configuration or its configuration is marked disabled (enabled = false),
\* for stored configurations and for a caller's map.
C23_AbsentOrDisabledStepSkipped ==
    (PipelineEnded /\ request.kind = "preprocess") =>
        \A n \in 1..Len(StepOrder) :
            (\/ StepOrder[n] \notin DOMAIN ConfigsUsed
             \/ /\ "enabled" \in DOMAIN ConfigsUsed[StepOrder[n]]
                /\ ConfigsUsed[StepOrder[n]]["enabled"] = FALSE)
                => ~StepRan(StepOrder[n])

\* the input columns the claim names for a transform
RequiredColumns(step) ==
    CASE step = "time_features" -> {"measured_at"}
      [] step = "rainfall_features" -> {"rainfall_1h"}
      [] step = "weather_interactions" -> {"temperature", "humidity", "pressure"}
      [] OTHER -> {"water_level"}

\* C24 (as claimed): a feature transform called on a frame that lacks its
\* required input column returns the frame unchanged and raises no error.
C24_TransformNoOpWithoutInput ==
    (pc = "done" /\ request.kind = "transform"
        /\ \A col \in RequiredColumns(request.step) : ~HasColumn(response.input, col)) =>
        /\ response.status = "success"
        /\ response.output = response.input

\* no delta occurs more than once (none at all for a single timestamp)
NoRepeatedDelta(deltas) ==
    \A k \in 1..Len(deltas) : Cardinality({n \in 1..Len(deltas) : deltas[n] = deltas[k]}) = 1

\* C25 (as claimed): for a station whose timestamps have no modal delta
\* (fewer than two points, or no delta occurring more than once) the interval
\* is taken as 30 minutes and the lag columns are still produced with it:
\* lag l is the level 2 * l rows back.
C25_FallbackThirtyMinutes ==
    (Preprocessed /\ StepRan("lag_features")) =>
        LET df == response.before_cleaning
            lag_periods == ConfigsUsed["lag_features"]["lag_periods"]
        IN  \A i \in 1..NRows(df), n \in 1..Len(lag_periods) :
                NoRepeatedDelta(StationDeltas(df, i)) =>
                    /\ HasColumn(df, LagColumn(lag_periods[n]))
                    /\ df.rows[i][LagColumn(lag_periods[n])]
                          = StationLevel(df, i, 0 - ((lag_periods[n] * 60) \div 30))

\* C26 (as claimed): the configuration source is queried at most once in a
\* run, before any fetch or transform; when the caller supplies a map, an
\* empty one included, the source is not queried and the map alone decides
\* which steps run.
C26_ConfigSourceQueriedOnce ==
    (PipelineEnded /\ request.kind = "preprocess") =>
        /\ \A a \in 1..Len(response.calls) :
              response.calls[a] = "get_preprocessing_configs" => a = 1
        /\ request.use_custom_configs =>
              /\ ~InSeq("get_preprocessing_configs", response.calls)
              /\ \A n \in 1..Len(StepOrder) :
                    StepRan(StepOrder[n]) => StepOrder[n] \in DOMAIN request.custom_configs

\* a station of the scope reports one measured_at twice
DuplicateTimestamps ==
    \E a, b \in 1..Len(ScopeRows) :
        /\ a < b
        /\ ScopeRows[a].station_id = ScopeRows[b].station_id
        /\ ScopeRows[a].measured_at = ScopeRows[b].measured_at

\* C27 (as claimed): for a series with duplicate timestamps, one whose most
\* frequent delta is zero included, the lag, rolling and rate-of-change steps
\* complete without error.
C27_DuplicatesDoNotBreak ==
    (PipelineEnded /\ request.kind = "preprocess" /\ DuplicateTimestamps) =>
        /\ response.status = "success"
        /\ StepRan("lag_features") /\ StepRan("rolling_statistics")
        /\ StepRan("rate_of_change")

\* C28 (as claimed): a horizon yields a forecast whenever some family of the
\* preference list has a registered model with a loadable version; a ridge
\* entry without versions, or whose lookup or load raises, does not keep the
\* linear model from being used.  The registry is the one the call found:
\* no other client has written to it.
C28_LinearUsedWhenRidgeFails ==
    (Forecasted /\ writes = 0) =>
        \A n \in 1..Len(request.horizons_minutes) :
            (\E f \in {"ridge", "linear"} :
                Usable(EntryAt(model_registry, request.horizons_minutes[n])[f])) =>
                \E k \in 1..Len(response.forecasts) :
                    HorizonOf(response.forecasts[k]) = request.horizons_minutes[n]

\* C29 (as claimed): at every horizon, each feature the model expects and
\* the latest vector holds is handed over with its value in the latest
\* vector, water_level and water_level_lag_1h apart, whatever features the
\* models of the earlier horizons expected.
C29_LatestValuesReachLaterModels ==
    Forecasted =>
        \A k \in 1..Len(response.fed) :
            LET fed == response.fed[k]
            IN  \A n \in 1..Len(fed.X.columns) :
                    (/\ HasColumn(response.X_latest, fed.X.columns[n])
                     /\ fed.X.columns[n] \notin {"water_level", "water_level_lag_1h"}) =>
                        fed.X.rows[1][fed.X.columns[n]]
                            = response.X_latest.rows[1][fed.X.columns[n]]

\* C30 (as claimed): a call of preprocess_data leaves the caller's
\* custom_configs map as it was: every entry, target_creation included, has
\* the keys and values it had before the call.
C30_CustomConfigsUnchanged ==
    [][request.kind = "preprocess" => request'.custom_configs = request.custom_configs]_vars

====
